---- MODULE Spec2Model ----
(***************************************************************************)
(* K2Rebuild: the stage orchestrator (tools/orchestrator.py), the          *)
(* checkpoint store (tools/checkpoint.py) and the stage scripts, as a      *)
(* state machine over the checkpoint file on disk.                         *)
(*                                                                         *)
(* A file is a record: kind says what is on disk (absent, garbage = bytes  *)
(* that are no JSON, empty = just truncated, partial = a prefix of a JSON  *)
(* text, json = a complete JSON text), top the type of the JSON value, and *)
(* for an object the keys the program reads or writes: stage, meta,        *)
(* artifacts, ts.  Strings are TLA+ strings, so Python's `a in b` on       *)
(* strings is computed, not tabulated.                                     *)
(***************************************************************************)
EXTENDS Integers, Sequences, FiniteSets, TLC

VARIABLES
    ckpt,       \* output/checkpoint.json
    tmp,        \* output/checkpoint.json.tmp
    pc,         \* where the running process is ("idle": none is running)
    cur,        \* 1-based index of the stage being run by the build loop
    run,        \* the current / last orchestrator run (what it read, how it ended)
    executed,   \* stage names invoked by the current / last build run, in order
    codes,      \* exit codes of the invocations in `executed` that have returned
    ckBefore,   \* checkpoint stage value when the current / last stage was started
    wr,         \* the checkpoint write in progress / last performed
    post,       \* exit code the writing script returns once its write is done
    prev,       \* how the previous orchestrator run ended
    runs,       \* number of commands started so far
    calls,      \* checkpoint-store calls made directly (stage_done history)
    rd,         \* result of the last direct checkpoint-store read
    vpc,        \* firmware_validator: where the validation of one tree is
    did,        \* Mounts.did: targets whose mount call returned 0, in order
    syscalls,   \* mount / umount commands issued by Mounts, in order
    results,    \* RootFSValidator.results: tests, warnings, errors
    val,        \* the validation under way: label, tree, probes run, fault
    report,     \* <label>_report.json as save_reports wrote it
    qpc,        \* qemu_test: where main / run_qemu is
    env,        \* qemu_test: environment and discovery results main works with
    bootlog,    \* output/qemu_boot.log
    child,      \* the emulator child process
    rq,         \* run_qemu's locals: start, last_size, matched, result
    now,        \* wall clock, in polling intervals
    qreport,    \* output/qemu_test_report.json
    qm,         \* the smoke-test process: how it ended, what it found on entry
    progress,   \* output/progress.json: the JSON texts it holds, one after the other
    hist,       \* what the last two get_history calls returned
    gpc,        \* generate_fw: where main / try_extract_rootfs is
    gen,        \* generate_fw: the extraction directory, the cascade's locals, the outcome
    vf,         \* validate_fw: the components found, results, report file, outcome
    inv         \* compare_roots: the two trees and the inventory diffs written

\* the validation harness
valVars == <<vpc, did, syscalls, results, val, report>>

\* the boot smoke test (it shares the checkpoint file with the build)
qVars == <<qpc, env, bootlog, child, rq, now, qreport, qm>>

\* what the orchestrator, the stage scripts and the checkpoint store leave alone
\* the progress timeline, the firmware generator, the component validation
progVars == <<progress, hist>>

genVars == <<gpc, gen>>

newVars == <<progVars, genVars, vf, inv>>

otherVars == <<valVars, qVars, newVars>>

\* the build's own variables other than the checkpoint file
buildRest == <<tmp, pc, cur, run, executed, codes, ckBefore, wr, post, prev, runs, calls, rd>>

vars == <<ckpt, tmp, pc, cur, run, executed, codes, ckBefore, wr, post, prev, runs, calls, rd,
          otherVars>>

-----------------------------------------------------------------------------
(* Bounds of the model *)

\* commands (orchestrator runs / store calls) started in one behaviour
MaxRuns == 2

-----------------------------------------------------------------------------
(* JSON values and file contents *)

JStr(x) == [t |-> "str", s |-> x]
JNum(x) == [t |-> "num", s |-> x]
JMissing == [t |-> "missing", s |-> ""]

EmptyMeta == [k \in {} |-> ""]

File(kind, top, stage, hasMeta, meta, art, ts, payload) ==
    [kind |-> kind, top |-> top, stage |-> stage, hasMeta |-> hasMeta,
     meta |-> meta, art |-> art, ts |-> ts, payload |-> payload]

Absent  == File("absent",  "-", JMissing, FALSE, EmptyMeta, {}, FALSE, "")
Garbage == File("garbage", "-", JMissing, FALSE, EmptyMeta, {}, FALSE, "")
Empty   == File("empty",   "-", JMissing, FALSE, EmptyMeta, {}, FALSE, "")
Partial == File("partial", "-", JMissing, FALSE, EmptyMeta, {}, FALSE, "")

\* a JSON object with the keys the program knows
Obj(stage, hasMeta, meta, art, ts) ==
    File("json", "obj", stage, hasMeta, meta, art, ts, "")

\* a complete JSON text whose value is no object: a list of strings (payload
\* is its one element, "" for the empty list), a string, or a scalar
\* (number, null, true, false)
NonObj(top, payload) ==
    File("json", top, JMissing, FALSE, EmptyMeta, {}, FALSE, payload)

\* Python: a in b, for strings
StrIn(a, b) ==
    \E i \in 1..(Len(b) - Len(a) + 1) : SubSeq(b, i, i + Len(a) - 1) = a

\* Python: dict.update
Update(m, p) ==
    [k \in (DOMAIN m) \cup (DOMAIN p) |-> IF k \in DOMAIN p THEN p[k] ELSE m[k]]

Min(S) == CHOOSE x \in S : \A y \in S : x <= y

\* json.load succeeds on the file
Parses(f) == f.kind = "json"

-----------------------------------------------------------------------------
(* tools/checkpoint.py *)

\* _read_json: the parsed value, {} on any exception
read_json(f) ==
    IF Parses(f) THEN f ELSE Obj(JMissing, FALSE, EmptyMeta, {}, FALSE)

\* `"stage" not in data` on the value json.load returned: a key test on a
\* dict, a membership test on a list, a substring test on a string, a
\* TypeError on a number, null or a boolean
StageNotIn(d) ==
    CASE d.top = "obj"    -> [raised |-> FALSE, val |-> d.stage.t = "missing"]
      [] d.top = "list"   -> [raised |-> FALSE, val |-> d.payload # "stage"]
      [] d.top = "str"    -> [raised |-> FALSE, val |-> ~StrIn("stage", d.payload)]
      [] OTHER            -> [raised |-> TRUE,  val |-> FALSE]

\* get_checkpoint: [raised, data]. data["stage"] = "none" is an item
\* assignment: it works on a dict and raises TypeError on a list or a string
get_checkpoint(f) ==
    LET data == read_json(f)
        test == StageNotIn(data)
    IN  IF test.raised THEN [raised |-> TRUE, data |-> data]
        ELSE IF ~test.val THEN [raised |-> FALSE, data |-> data]
        ELSE IF data.top = "obj"
             THEN [raised |-> FALSE, data |-> [data EXCEPT !.stage = JStr("none")]]
             ELSE [raised |-> TRUE, data |-> data]

\* last_successful_stage: data.get("stage", "none"), "none" on any exception
\* (get_checkpoint raising, or .get on a list or a string)
last_successful_stage(f) ==
    LET g == get_checkpoint(f)
    IN  IF g.raised \/ g.data.top # "obj" THEN JStr("none")
        ELSE IF g.data.stage.t = "missing" THEN JStr("none") ELSE g.data.stage

\* stage_done with data["meta"] = kwargs in place of setdefault(...).update
stage_done_replaces_meta(f, stage, patch) ==
    LET g == get_checkpoint(f)
    IN  IF g.raised \/ g.data.top # "obj" THEN [raised |-> TRUE, data |-> f]
        ELSE LET d1 == [g.data EXCEPT !.stage = JStr(stage)]
                 d2 == IF patch # EmptyMeta
                       THEN [d1 EXCEPT !.hasMeta = TRUE, !.meta = patch]
                       ELSE d1
             IN  [raised |-> FALSE, data |-> d2]

\* stage_done up to the call of _write_json: [raised, data], data the dict
\* handed to _write_json
stage_done_data(f, stage, patch) ==
    LET g == get_checkpoint(f)
    IN  IF g.raised \/ g.data.top # "obj" THEN [raised |-> TRUE, data |-> f]
        ELSE LET d1 == [g.data EXCEPT !.stage = JStr(stage)]
                 d2 == IF patch # EmptyMeta
                       THEN [d1 EXCEPT !.hasMeta = TRUE, !.meta = Update(d1.meta, patch)]
                       ELSE d1
             IN  [raised |-> FALSE, data |-> d2]

-----------------------------------------------------------------------------
(* tools/orchestrator.py: pure parts *)

stages == <<"detect_rootfs", "unsquash", "inject_upstream", "repack_fw", "validate_fw">>

NStages == Len(stages)

\* read_checkpoint with `except: return None` in place of `return "none"`
read_checkpoint_none_on_error(f) ==
    IF f.kind = "absent" THEN JStr("none")
    ELSE IF ~Parses(f) \/ f.top # "obj" THEN JMissing
    ELSE IF f.stage.t = "missing" THEN JStr("none")
    ELSE f.stage

\* read_checkpoint: the stored "stage" ("none" when the key is absent), and
\* "none" when the file does not exist or anything in the read raises
\* (json.load on bytes that are no JSON, .get on a value that is no dict)
read_checkpoint(f) ==
    IF f.kind = "absent" THEN JStr("none")
    ELSE IF ~Parses(f) \/ f.top # "obj" THEN JStr("none")
    ELSE IF f.stage.t = "missing" THEN JStr("none")
    ELSE f.stage

\* the test of the resume scan, `stage in s`: the checkpoint's stage string
\* is looked for inside the stage name
StageMatches(stage, s) == StrIn(stage, s)

\* main, lines 103-108: start_idx, as the number of leading stages skipped.
\* `stage in s` with a stage that is no string raises TypeError
start_idx(stage) ==
    IF stage = JStr("none") THEN [raised |-> FALSE, idx |-> 0]
    ELSE IF stage.t # "str" THEN [raised |-> TRUE, idx |-> 0]
    ELSE LET hits == {i \in 1..NStages : StageMatches(stage.s, stages[i])}
         IN  [raised |-> FALSE, idx |-> IF hits = {} THEN 0 ELSE Min(hits)]

\* checkpoint(stage): the dict written, {"stage": stage, "ts": now}
checkpoint_data(stage) == Obj(JStr(stage), FALSE, EmptyMeta, {}, TRUE)

\* checkpoint(stage) writes with Path.write_text: open(path, "w"), write
checkpoint_mode == "direct"

\* run_stage with the CalledProcessError swallowed (logged, no sys.exit)
run_stage_ignores_failure(code) == [goon |-> TRUE, exit |-> 0]

\* run_stage after check_call returned `code`: go on to the checkpoint on
\* zero, sys.exit(e.returncode) otherwise
run_stage_result(code) ==
    IF code = 0 THEN [goon |-> TRUE, exit |-> 0] ELSE [goon |-> FALSE, exit |-> code]

\* exit codes a failing collaborator process returns
FailCodes == {1, 2}

-----------------------------------------------------------------------------
(* the stage scripts: what each hands to its checkpoint write *)

\* detect_rootfs.write_checkpoint: the dict and the way it is written
\* (Path.write_text)
write_checkpoint_data(stage) == Obj(JStr(stage), FALSE, EmptyMeta, {}, TRUE)

write_checkpoint_mode == "direct"

\* _write_json opening the checkpoint file itself
write_json_direct == "direct"

\* checkpoint._write_json: open(path + ".tmp", "w"), json.dump, os.replace
write_json_mode == "atomic"

\* fetch_device_state.save_checkpoint: {"stage", "ts", "meta": meta or {}},
\* written with open(CHECKPOINT_FILE, "w")
save_checkpoint_data(stage, meta) == Obj(JStr(stage), TRUE, meta, {}, TRUE)

save_checkpoint_mode == "direct"

\* keyword arguments of the stage scripts' stage_done calls
UnsquashPatch ==
    [k \in {"rootfs_dir", "rootfs_squash"} |->
        IF k = "rootfs_dir" THEN "work/rootfs" ELSE "work/rootfs.squashfs"]

RepackPatch ==
    [k \in {"image", "rootfs_squash", "sw_description", "cpio_md5"} |->
        CASE k = "image"          -> "custom_firmware.img"
          [] k = "rootfs_squash"  -> "work/rootfs.squashfs"
          [] k = "sw_description" -> "work/sw-description"
          [] OTHER                -> "work/cpio_item_md5"]

\* validate_fw: the required components found not ok, as the joined list
MissingSets == {"rootfs", "sw-description", "rootfs, sw-description"}

ValidateFailedPatch(missing) ==
    [k \in {"missing", "results"} |-> IF k = "missing" THEN missing ELSE "results: " \o missing]

ValidateOkPatch == [k \in {"results"} |-> "results: ok"]

FetchMeta == [k \in {"status", "host"} |-> IF k = "status" THEN "ok" ELSE "printer"]

-----------------------------------------------------------------------------
(* the stage scripts: main() of each, on the checkpoint file `f` it finds.   *)
(* envOk: everything outside the checkpoint the script needs is there and    *)
(* every external tool it calls exits zero.  Result: whether the script      *)
(* reaches its checkpoint write, what it writes and how, and its exit code.  *)

NoWrite(code) == [write |-> FALSE, mode |-> "none", data |-> Absent, exit |-> code]

\* detect_rootfs.main: sys.exit(1) unless the extracted tree holds a rootfs;
\* then write_checkpoint("detect_rootfs_complete")
detect_rootfs_main(f, envOk) ==
    IF ~envOk THEN NoWrite(1)
    ELSE [write |-> TRUE, mode |-> write_checkpoint_mode,
          data |-> write_checkpoint_data("detect_rootfs_complete"), exit |-> 0]

\* a stage_done call that ends a script: an exception in it is a traceback
\* and exit code 1
StageDoneCall(f, stage, patch, code) ==
    LET sd == stage_done_data(f, stage, patch)
    IN  IF sd.raised THEN NoWrite(1)
        ELSE [write |-> TRUE, mode |-> write_json_mode, data |-> sd.data, exit |-> code]

\* ck.get("artifacts", {}).get(key) is set: get_checkpoint must return a dict
HasArtifact(f, key) ==
    LET g == get_checkpoint(f)
    IN  ~g.raised /\ g.data.top = "obj" /\ key \in g.data.art

\* unsquash.main
unsquash_main(f, envOk) ==
    IF ~HasArtifact(f, "rootfs_source") \/ ~envOk THEN NoWrite(1)
    ELSE StageDoneCall(f, "unsquash", UnsquashPatch, 0)

\* inject_upstream.main
inject_upstream_main(f, envOk) ==
    IF ~HasArtifact(f, "rootfs_dir") \/ ~envOk THEN NoWrite(1)
    ELSE StageDoneCall(f, "inject_upstream", EmptyMeta, 0)

\* repack_fw.main: reads the checkpoint only to print the previous stage
repack_fw_main(f, envOk) ==
    LET g == get_checkpoint(f)
    IN  IF g.raised \/ g.data.top # "obj" \/ ~envOk THEN NoWrite(1)
        ELSE StageDoneCall(f, "repack_fw", RepackPatch, 0)

\* validate_fw.main: `missing` is the joined list of required components
\* not verified ok, "" when all are
validate_fw_main(f, missing) ==
    IF missing # ""
    THEN StageDoneCall(f, "validate_failed", ValidateFailedPatch(missing), 1)
    ELSE StageDoneCall(f, "validate_fw", ValidateOkPatch, 0)

\* generate_fw.py started whatever is there
ensure_firmware_always(present, code, rootfs) ==
    IF code # 0 THEN [invoked |-> TRUE, goon |-> FALSE, exit |-> code]
    ELSE IF ~(present \/ rootfs) THEN [invoked |-> TRUE, goon |-> FALSE, exit |-> 1]
    ELSE [invoked |-> TRUE, goon |-> TRUE, exit |-> 0]

\* the rootfs directory not looked for after generate_fw exited zero
ensure_firmware_unchecked(present, code, rootfs) ==
    IF present THEN [invoked |-> FALSE, goon |-> TRUE, exit |-> 0]
    ELSE IF code # 0 THEN [invoked |-> TRUE, goon |-> FALSE, exit |-> code]
    ELSE [invoked |-> TRUE, goon |-> TRUE, exit |-> 0]

\* ensure_firmware_present: present = image and rootfs are there; otherwise
\* generate_fw.py is invoked, exits `code`, and leaves a rootfs or not
ensure_firmware_present(present, code, rootfs) ==
    IF present THEN [invoked |-> FALSE, goon |-> TRUE, exit |-> 0]
    ELSE IF code # 0 THEN [invoked |-> TRUE, goon |-> FALSE, exit |-> code]
    ELSE IF ~rootfs THEN [invoked |-> TRUE, goon |-> FALSE, exit |-> 1]
    ELSE [invoked |-> TRUE, goon |-> TRUE, exit |-> 0]

-----------------------------------------------------------------------------
(* state *)

\* ck0: the checkpoint file the run found; have: what ensure_firmware_present
\* found ("present": image and rootfs, "absent": not both); gencode, rootfs:
\* generate_fw's exit code and whether a rootfs directory exists after it
InitRun ==
    [mode |-> "none", stage |-> JMissing, fkind |-> "-", idx |-> 0,
     status |-> "none", code |-> 0, at |-> "-", gen |-> 0,
     ck0 |-> Absent, have |-> "-", gencode |-> 0, rootfs |-> FALSE]

InitWr == [mode |-> "none", step |-> "-", data |-> Absent, before |-> Absent]

InitPrev ==
    [mode |-> "none", status |-> "none", at |-> "-", idx |-> 0, failed |-> 0, done |-> 0,
     ever |-> {}]

InitRd ==
    [valid |-> FALSE, file |-> Absent, gc |-> get_checkpoint(Absent), ls |-> JStr("none")]

IndexOf(name) == CHOOSE i \in 1..NStages : stages[i] = name

\* the "stage" value stored in the file, JMissing when there is none to read
StoredStage(f) == IF Parses(f) /\ f.top = "obj" THEN f.stage ELSE JMissing

\* what the run that just ended leaves for the next one to be compared with:
\* failed = index of the stage whose invocation exited nonzero (0: none),
\* done = index of the last stage whose invocation exited zero (0: none),
\* ever = the stages that have exited zero in this run or in one before it
PrevOf ==
    [mode |-> run.mode, status |-> run.status, at |-> run.at, idx |-> run.idx,
     failed |-> IF run.mode = "build" /\ codes # <<>> /\ codes[Len(codes)] # 0
                THEN IndexOf(executed[Len(codes)]) ELSE 0,
     done   |-> IF run.mode = "build" /\ \E i \in 1..Len(codes) : codes[i] = 0
                THEN IndexOf(executed[CHOOSE i \in 1..Len(codes) :
                        codes[i] = 0 /\ \A j \in (i+1)..Len(codes) : codes[j] # 0])
                ELSE 0,
     ever   |-> prev.ever \cup
                IF run.mode \in {"build", "script"}
                THEN {executed[i] : i \in {j \in 1..Len(codes) : codes[j] = 0}}
                ELSE {}]

\* RootFSValidator.__init__: self.results, and nothing mounted
EmptyTests == [k \in {} |-> [status |-> "-", detail |-> {}, missing_dirs |-> {}, missing_bins |-> {}]]

InitResults == [tests |-> EmptyTests, warnings |-> <<>>, errors |-> <<>>]

InitVal == [label |-> "-", tree |-> {}, probe |-> 0, fault |-> "none"]

NoReport == [written |-> FALSE, results |-> InitResults]

\* no validation has been started
ValIdle ==
    /\ vpc = "idle"
    /\ did = <<>>
    /\ syscalls = <<>>
    /\ results = InitResults
    /\ val = InitVal
    /\ report = NoReport

InitEnv ==
    [enable |-> TRUE, strict |-> FALSE, timeout_s |-> 0, qemu_bin |-> FALSE,
     kernel |-> FALSE, eps |-> FALSE]

NoLog == [exists |-> FALSE, text |-> ""]

NoChild == [state |-> "none", writes |-> 0, signals |-> <<>>, reaped |-> FALSE]

\* whole: at some round of the loop that did not end in the timeout, the log
\* file, read from its first byte, held a boot-banner pattern
InitRq ==
    [start |-> 0, last_size |-> 0, matched |-> FALSE, status |-> "-", reason |-> "-",
     whole |-> FALSE]

NoQReport == [exists |-> FALSE, status |-> "-", reason |-> "-"]

InitQm == [status |-> "none", code |-> 0, ckIn |-> Absent, launched |-> FALSE, ended |-> 0]

\* no smoke test has been started
QemuIdle ==
    /\ qpc = "idle"
    /\ env = InitEnv
    /\ bootlog = NoLog
    /\ child = NoChild
    /\ rq = InitRq
    /\ now = 0
    /\ qreport = NoQReport
    /\ qm = InitQm

NoProgress == <<>>

InitHist == [prev |-> <<>>, last |-> <<>>]

\* dir: who wrote the entries now in extracted/rootfs; tree: some branch's
\* tool did extract a tree; ok: what try_extract_rootfs returned; raised: an
\* exception reached the top of the script; exit: the exit code, -1 before;
\* bw: the rows the scan printed; tools: the tools started for the sniffed
\* type; out: how the tool started for the sniffed type ended
InitGen ==
    [dir |-> {}, rc |-> 0, stderr |-> "", stdout |-> "", primary |-> "-", offset |-> "-",
     carve |-> "-", file_type |-> "-", branch |-> "-", tree |-> FALSE, dec |-> FALSE,
     ok |-> "-", raised |-> FALSE, exit |-> -1, bw |-> <<>>, tools |-> {}, out |-> "-"]

InitVf ==
    [pc |-> "idle", comps |-> <<>>, results |-> <<>>, missing |-> <<>>,
     report |-> [written |-> FALSE, data |-> <<>>], exit |-> "-"]

\* ran, ranBack: compare_roots has been called on (orig, new), on (new, orig)
NoInv == [orig |-> {}, new |-> {}, ran |-> FALSE, diff |-> <<>>, ranBack |-> FALSE, back |-> <<>>]

RestIdle ==
    /\ progress = NoProgress /\ hist = InitHist
    /\ gpc = "idle" /\ gen = InitGen
    /\ vf = InitVf

NewIdle == RestIdle /\ inv = NoInv


\* checkpoint contents a run may find on disk
InitStageTags ==
    {stages[i] \o "_complete" : i \in 1..NStages}
    \cup {"none", "detect_rootfs", "unsquash", "inject_upstream", "repack_fw", "validate_fw",
          "validate_failed", "fetch_metadata_complete"}

InitFiles ==
    {Absent, Garbage, NonObj("list", "")}
    \cup {Obj(JStr(s), FALSE, EmptyMeta, {}, TRUE) : s \in InitStageTags}
    \cup {Obj(JStr("detect_rootfs"), FALSE, EmptyMeta, {"rootfs_source"}, TRUE),
          Obj(JStr("unsquash"), TRUE, UnsquashPatch, {"rootfs_dir"}, TRUE),
          Obj(JNum("5"), FALSE, EmptyMeta, {}, FALSE)}

Init ==
    /\ ckpt \in InitFiles
    /\ tmp = Absent
    /\ pc = "idle"
    /\ cur = 0
    /\ run = InitRun
    /\ executed = <<>>
    /\ codes = <<>>
    /\ ckBefore = JMissing
    /\ wr = InitWr
    /\ post = 0
    /\ prev = InitPrev
    /\ runs = 0
    /\ calls = <<>>
    /\ rd = InitRd
    /\ ValIdle
    /\ QemuIdle
    /\ NewIdle

-----------------------------------------------------------------------------
(* orchestrator.py main, `build` mode *)

Exited(code, where) == [run EXCEPT !.status = "exited", !.code = code, !.at = where]

\* main: build -> read_checkpoint()
StartBuild ==
    /\ pc = "idle"
    /\ runs < MaxRuns
    /\ runs' = runs + 1
    /\ prev' = PrevOf
    /\ run' = [InitRun EXCEPT !.mode = "build", !.stage = read_checkpoint(ckpt),
                              !.fkind = ckpt.kind, !.status = "running", !.ck0 = ckpt]
    /\ executed' = <<>>
    /\ codes' = <<>>
    /\ cur' = 0
    /\ pc' = "b_prereq"
    /\ UNCHANGED <<ckpt, tmp, ckBefore, wr, post, calls, rd, otherVars>>

\* main: ensure_firmware_present()
BuildPrereq ==
    /\ pc = "b_prereq"
    /\ \E present \in BOOLEAN, code \in {0} \cup FailCodes, rootfs \in BOOLEAN :
          LET r == ensure_firmware_present(present, code, rootfs)
              g == IF r.invoked THEN run.gen + 1 ELSE run.gen
              seen == [run EXCEPT !.gen = g,
                                  !.have = IF present THEN "present" ELSE "absent",
                                  !.gencode = IF present THEN 0 ELSE code,
                                  !.rootfs = present \/ (code = 0 /\ rootfs)]
          IN  IF r.goon
              THEN /\ pc' = "b_index"
                   /\ run' = seen
              ELSE /\ pc' = "idle"
                   /\ run' = [seen EXCEPT !.status = "exited", !.code = r.exit,
                                          !.at = "prereq"]
    /\ UNCHANGED <<ckpt, tmp, cur, executed, codes, ckBefore, wr, post, prev, runs, calls, rd, otherVars>>

\* main, lines 103-110: the resume index; an empty stages[start_idx:] falls
\* through to sys.exit(0)
BuildIndex ==
    /\ pc = "b_index"
    /\ LET r == start_idx(run.stage)
       IN  IF r.raised
           THEN /\ pc' = "idle"
                /\ run' = [run EXCEPT !.status = "raised", !.code = 1, !.at = "index"]
                /\ cur' = cur
           ELSE IF r.idx >= NStages
           THEN /\ pc' = "idle"
                /\ run' = [Exited(0, "end") EXCEPT !.idx = r.idx]
                /\ cur' = r.idx + 1
           ELSE /\ pc' = "b_next"
                /\ run' = [run EXCEPT !.idx = r.idx]
                /\ cur' = r.idx + 1
    /\ UNCHANGED <<ckpt, tmp, executed, codes, ckBefore, wr, post, prev, runs, calls, rd, otherVars>>

\* run_stage, lines 56-62: the script is started unless its file is missing
RunStage ==
    /\ pc = "b_next"
    /\ \E exists \in BOOLEAN :
          IF exists
          THEN /\ executed' = Append(executed, stages[cur])
               /\ ckBefore' = StoredStage(ckpt)
               /\ pc' = "s_run"
               /\ run' = run
          ELSE /\ pc' = "idle"
               /\ run' = Exited(1, "missing_tool")
               /\ UNCHANGED <<executed, ckBefore>>
    /\ UNCHANGED <<ckpt, tmp, cur, codes, wr, post, prev, runs, calls, rd, otherVars>>

\* the stage script has returned `code` to run_stage
StageReturn(code) ==
    LET r == run_stage_result(code)
    IN  /\ codes' = Append(codes, code)
        /\ IF r.goon
           THEN pc' = "b_ckpt" /\ run' = run
           ELSE pc' = "idle" /\ run' = Exited(r.exit, "stage")

\* the script runs up to its checkpoint write, or to its exit without one
ScriptStep(o) ==
    IF o.write
    THEN /\ wr' = [mode |-> o.mode, step |-> "start", data |-> o.data, before |-> ckpt]
         /\ post' = o.exit
         /\ pc' = "s_write"
         /\ UNCHANGED <<codes, run>>
    ELSE /\ StageReturn(o.exit)
         /\ UNCHANGED <<wr, post>>

ScriptFrame == UNCHANGED <<ckpt, tmp, cur, executed, ckBefore, prev, runs, calls, rd, otherVars>>

DetectRootfs ==
    /\ pc = "s_run" /\ stages[cur] = "detect_rootfs"
    /\ \E envOk \in BOOLEAN : ScriptStep(detect_rootfs_main(ckpt, envOk))
    /\ ScriptFrame

Unsquash ==
    /\ pc = "s_run" /\ stages[cur] = "unsquash"
    /\ \E envOk \in BOOLEAN : ScriptStep(unsquash_main(ckpt, envOk))
    /\ ScriptFrame

InjectUpstream ==
    /\ pc = "s_run" /\ stages[cur] = "inject_upstream"
    /\ \E envOk \in BOOLEAN : ScriptStep(inject_upstream_main(ckpt, envOk))
    /\ ScriptFrame

RepackFw ==
    /\ pc = "s_run" /\ stages[cur] = "repack_fw"
    /\ \E envOk \in BOOLEAN : ScriptStep(repack_fw_main(ckpt, envOk))
    /\ ScriptFrame

ValidateFw ==
    /\ pc = "s_run" /\ stages[cur] = "validate_fw"
    /\ \E missing \in MissingSets \cup {""} : ScriptStep(validate_fw_main(ckpt, missing))
    /\ ScriptFrame

\* main, line 112: checkpoint(f"{s}_complete")
BuildCheckpoint ==
    /\ pc = "b_ckpt"
    /\ wr' = [mode |-> checkpoint_mode, step |-> "start",
              data |-> checkpoint_data(stages[cur] \o "_complete"), before |-> ckpt]
    /\ pc' = "b_write"
    /\ UNCHANGED <<ckpt, tmp, cur, run, executed, codes, ckBefore, post, prev, runs, calls, rd, otherVars>>

-----------------------------------------------------------------------------
(* orchestrator.py main, `fetch` mode *)

\* lines 76-83: fetch_device_state.py is started unless its file is missing
StartFetch ==
    /\ pc = "idle"
    /\ runs < MaxRuns
    /\ runs' = runs + 1
    /\ prev' = PrevOf
    /\ executed' = <<>>
    /\ codes' = <<>>
    /\ cur' = 0
    /\ \E exists \in BOOLEAN :
          LET r == [InitRun EXCEPT !.mode = "fetch", !.fkind = ckpt.kind,
                                   !.status = "running", !.ck0 = ckpt]
          IN  IF exists
              THEN pc' = "f_run" /\ run' = r
              ELSE pc' = "idle"
                   /\ run' = [r EXCEPT !.status = "exited", !.code = 1, !.at = "missing_tool"]
    /\ UNCHANGED <<ckpt, tmp, ckBefore, wr, post, calls, rd, otherVars>>

\* fetch_device_state.main: exits nonzero before any write, or ends with
\* save_checkpoint.  check_call's CalledProcessError is not caught in main:
\* the orchestrator ends with a traceback, exit code 1
FetchScript ==
    /\ pc = "f_run"
    /\ executed' = <<"fetch_device_state">>
    /\ \E code \in {0} \cup FailCodes :
          IF code # 0
          THEN /\ codes' = <<code>>
               /\ pc' = "idle"
               /\ run' = [run EXCEPT !.status = "raised", !.code = 1, !.at = "fetch"]
               /\ UNCHANGED <<wr, post>>
          ELSE /\ wr' = [mode |-> save_checkpoint_mode, step |-> "start",
                         data |-> save_checkpoint_data("fetch_metadata_complete", FetchMeta),
                         before |-> ckpt]
               /\ post' = 0
               /\ pc' = "f_write"
               /\ UNCHANGED <<codes, run>>
    /\ UNCHANGED <<ckpt, tmp, cur, ckBefore, prev, runs, calls, rd, otherVars>>

\* line 84: checkpoint("fetch_metadata_complete")
FetchCheckpoint ==
    /\ pc = "fo_ckpt"
    /\ wr' = [mode |-> checkpoint_mode, step |-> "start",
              data |-> checkpoint_data("fetch_metadata_complete"), before |-> ckpt]
    /\ pc' = "fo_write"
    /\ UNCHANGED <<ckpt, tmp, cur, run, executed, codes, ckBefore, post, prev, runs, calls, rd, otherVars>>

-----------------------------------------------------------------------------
(* a checkpoint write, step by step.  direct: open(path, "w") truncates the  *)
(* checkpoint file, the text is written into it.  atomic: the same on        *)
(* path + ".tmp", then os.replace(tmp, path).                                *)

WritePcs == {"s_write", "b_write", "f_write", "fo_write", "store_write", "a_write"}

\* the process goes on after its write returned
WriteDone ==
    CASE pc = "s_write" ->
            /\ StageReturn(post)
            /\ UNCHANGED <<cur, calls>>
      [] pc = "b_write" ->
            /\ IF cur = NStages
               THEN pc' = "idle" /\ run' = Exited(0, "end") /\ cur' = cur
               ELSE pc' = "b_next" /\ run' = run /\ cur' = cur + 1
            /\ UNCHANGED <<codes, calls>>
      [] pc = "f_write" ->
            /\ codes' = Append(codes, 0)
            /\ pc' = "fo_ckpt"
            /\ UNCHANGED <<run, cur, calls>>
      [] pc = "fo_write" ->
            /\ pc' = "idle"
            /\ run' = Exited(0, "end")
            /\ UNCHANGED <<codes, cur, calls>>
      [] pc = "a_write" ->
            /\ codes' = Append(codes, post)
            /\ pc' = "idle"
            /\ run' = Exited(post, "end")
            /\ UNCHANGED <<cur, calls>>
      [] OTHER ->
            /\ pc' = "idle"
            /\ calls' = [calls EXCEPT ![Len(calls)].done = TRUE]
            /\ UNCHANGED <<run, cur, codes>>

\* open(..., "w")
WriteOpen ==
    /\ pc \in WritePcs
    /\ wr.step = "start"
    /\ IF wr.mode = "direct"
       THEN ckpt' = Empty /\ tmp' = tmp
       ELSE tmp' = Empty /\ ckpt' = ckpt
    /\ wr' = [wr EXCEPT !.step = "open"]
    /\ UNCHANGED <<pc, cur, run, executed, codes, ckBefore, post, prev, runs, calls, rd, otherVars>>

\* a first part of the text reaches the file
WritePartial ==
    /\ pc \in WritePcs
    /\ wr.step = "open"
    /\ IF wr.mode = "direct"
       THEN ckpt' = Partial /\ tmp' = tmp
       ELSE tmp' = Partial /\ ckpt' = ckpt
    /\ wr' = [wr EXCEPT !.step = "partial"]
    /\ UNCHANGED <<pc, cur, run, executed, codes, ckBefore, post, prev, runs, calls, rd, otherVars>>

\* the whole text is in the file and the file is closed
WriteFull ==
    /\ pc \in WritePcs
    /\ wr.step \in {"open", "partial"}
    /\ IF wr.mode = "direct"
       THEN /\ ckpt' = wr.data
            /\ tmp' = tmp
            /\ wr' = [wr EXCEPT !.step = "done"]
            /\ WriteDone
       ELSE /\ tmp' = wr.data
            /\ ckpt' = ckpt
            /\ wr' = [wr EXCEPT !.step = "full"]
            /\ UNCHANGED <<pc, cur, run, codes, calls>>
    /\ UNCHANGED <<executed, ckBefore, post, prev, runs, rd, otherVars>>

\* os.replace(tmp, path)
WriteReplace ==
    /\ pc \in WritePcs
    /\ wr.step = "full"
    /\ ckpt' = tmp
    /\ tmp' = Absent
    /\ wr' = [wr EXCEPT !.step = "done"]
    /\ WriteDone
    /\ UNCHANGED <<executed, ckBefore, post, prev, runs, rd, otherVars>>

\* the running process (and the script it waits for) is killed
Kill ==
    /\ pc # "idle"
    /\ pc' = "idle"
    /\ run' = [run EXCEPT !.status = "killed", !.at = pc]
    /\ UNCHANGED <<ckpt, tmp, cur, executed, codes, ckBefore, wr, post, prev, runs, calls, rd, otherVars>>

-----------------------------------------------------------------------------
(* the checkpoint store called directly *)

StoreIds == {"unsquash", "repack_fw"}

StorePatches ==
    {EmptyMeta} \cup {[k \in {"a"} |-> v] : v \in {"1", "2"}} \cup {[k \in {"b"} |-> "1"]}

LastTwo(sq) == IF Len(sq) > 2 THEN SubSeq(sq, Len(sq) - 1, Len(sq)) ELSE sq

\* stage_done(id, **patch)
StoreStageDone ==
    /\ pc = "idle"
    /\ runs < MaxRuns
    /\ runs' = runs + 1
    /\ \E id \in StoreIds, patch \in StorePatches :
          LET sd == stage_done_data(ckpt, id, patch)
              c  == [id |-> id, patch |-> patch, before |-> ckpt,
                     raised |-> sd.raised, done |-> FALSE]
          IN  /\ calls' = LastTwo(Append(calls, c))
              /\ IF sd.raised
                 THEN pc' = "idle" /\ wr' = wr
                 ELSE /\ pc' = "store_write"
                      /\ wr' = [mode |-> write_json_mode, step |-> "start",
                                data |-> sd.data, before |-> ckpt]
    /\ UNCHANGED <<ckpt, tmp, cur, run, executed, codes, ckBefore, post, prev, rd, otherVars>>

\* get_checkpoint() and last_successful_stage()
StoreRead ==
    /\ pc = "idle"
    /\ rd' = [valid |-> TRUE, file |-> ckpt, gc |-> get_checkpoint(ckpt),
              ls |-> last_successful_stage(ckpt)]
    /\ UNCHANGED <<ckpt, tmp, pc, cur, run, executed, codes, ckBefore, wr, post, prev, runs, calls, otherVars>>

\* file contents the store may find: no file, bytes that are no JSON, JSON
\* that is no object, and objects with and without "stage" and "meta"
StoreMetas == {EmptyMeta, [k \in {"a"} |-> "0"], [k \in {"a", "c"} |-> "0"]}

InitFilesStore ==
    {Absent, Garbage, NonObj("list", ""), NonObj("list", "stage"),
     NonObj("str", "stage one"), NonObj("str", "x"), NonObj("scalar", "5")}
    \cup {Obj(st, m # EmptyMeta, m, {}, FALSE) :
            st \in {JMissing, JStr("none"), JStr("unsquash"), JNum("5")}, m \in StoreMetas}

InitStore ==
    /\ ckpt \in InitFilesStore
    /\ tmp = Absent
    /\ pc = "idle"
    /\ cur = 0
    /\ run = InitRun
    /\ executed = <<>>
    /\ codes = <<>>
    /\ ckBefore = JMissing
    /\ wr = InitWr
    /\ post = 0
    /\ prev = InitPrev
    /\ runs = 0
    /\ calls = <<>>
    /\ rd = InitRd
    /\ ValIdle
    /\ QemuIdle
    /\ NewIdle

-----------------------------------------------------------------------------
(* specifications *)

Next ==
    \/ StartBuild
    \/ BuildPrereq
    \/ BuildIndex
    \/ RunStage
    \/ DetectRootfs
    \/ Unsquash
    \/ InjectUpstream
    \/ RepackFw
    \/ ValidateFw
    \/ BuildCheckpoint
    \/ StartFetch
    \/ FetchScript
    \/ FetchCheckpoint
    \/ WriteOpen
    \/ WritePartial
    \/ WriteFull
    \/ WriteReplace
    \/ Kill

Spec == Init /\ [][Next]_vars

NextStore ==
    \/ StoreStageDone
    \/ StoreRead
    \/ WriteOpen
    \/ WritePartial
    \/ WriteFull
    \/ WriteReplace
    \/ Kill

SpecStore == InitStore /\ [][NextStore]_vars

-----------------------------------------------------------------------------
(* tools/firmware_validator.py: Mounts *)

\* setup, lines 86-89: the targets of the four mount commands, in order
MountTargets == <<"proc", "sys", "dev", "dev/pts">>

\* exit codes of a mount command
MountCodes == {0, 32}

\* _mount: self.did after the command for `target` returned rc
mount_did(d, target, rc) == IF rc = 0 THEN Append(d, target) ELSE d

\* teardown walking self.did front to back
teardown_forward(d) == d

\* teardown: the targets in the order it unmounts them, reversed(self.did)
teardown_order(d) == [i \in 1..Len(d) |-> d[Len(d) + 1 - i]]

-----------------------------------------------------------------------------
(* tools/firmware_validator.py: RootFSValidator, the probes.  Each takes the *)
(* results so far and what it finds in the tree or gets from the command it  *)
(* runs, and gives [raised, res]: whether it raised, and self.results.       *)

\* an entry of results["tests"]: its outcome, the names it lists (modules
\* imported, services found) and, for the structure probe, what is missing
Entry(status, detail, dirs, bins) ==
    [status |-> status, detail |-> detail, missing_dirs |-> dirs, missing_bins |-> bins]

\* self.results["tests"][k] = e
Put(res, k, e) == [res EXCEPT !.tests = Update(@, [x \in {k} |-> e])]

Warn(res, w) == [res EXCEPT !.warnings = Append(@, w)]

Err(res, e) == [res EXCEPT !.errors = Append(@, e)]

Returned(res) == [raised |-> FALSE, res |-> res]

Raised(res) == [raised |-> TRUE, res |-> res]

test_structure(res, tree) ==
    LET missing      == {d \in {"bin", "sbin", "etc", "usr", "lib", "var"} : d \notin tree}
        missing_bins == {b \in {"/bin/sh", "/usr/bin/python3"} : b \notin tree}
        ok           == missing = {} /\ missing_bins = {}
        r            == Put(res, "structure",
                            Entry(IF ok THEN "ok" ELSE "fail", {}, missing, missing_bins))
    IN  Returned(IF ok THEN r ELSE Warn(r, "Basic structure incomplete"))

\* os.statvfs raises OSError, or gives free_mb
test_diskspace(res, oserror, free_mb) ==
    IF oserror THEN Raised(res)
    ELSE LET r == Put(res, "disk_space_mb", Entry("value", {}, {}, {}))
         IN  Returned(IF free_mb < 200 THEN Warn(r, "Low free space (<200 MB)") ELSE r)

\* rc of `python3 -V`; mods: the modules of ["yaml", "requests"] whose import
\* exits zero
test_python_runtime(res, rc, mods) ==
    LET r1 == Put(res, "python_runtime", Entry(IF rc = 0 THEN "ok" ELSE "fail", {}, {}, {}))
        r2 == IF rc = 0 THEN r1 ELSE Err(r1, "Python3 runtime not working")
    IN  Returned(Put(r2, "python_modules", Entry("value", mods, {}, {})))

test_services_presence(res, tree) ==
    LET candidates ==
            [svc \in {"klipper", "moonraker", "nginx"} |->
                CASE svc = "klipper" ->
                        {"/etc/systemd/system/klipper.service", "/etc/init.d/klipper",
                         "/usr/local/bin/klippy", "/usr/bin/klippy"}
                  [] svc = "moonraker" ->
                        {"/etc/systemd/system/moonraker.service", "/etc/init.d/moonraker",
                         "/usr/local/bin/moonraker", "/usr/bin/moonraker"}
                  [] OTHER ->
                        {"/etc/systemd/system/nginx.service", "/etc/init.d/nginx",
                         "/usr/sbin/nginx", "/usr/bin/nginx"}]
        found == {svc \in DOMAIN candidates : candidates[svc] \cap tree # {}}
    IN  Returned(Put(res, "services_presence", Entry("value", found, {}, {})))

\* rc of `nginx -t`
test_nginx_syntax(res, tree, rc) ==
    IF "/usr/sbin/nginx" \notin tree /\ "/usr/bin/nginx" \notin tree
    THEN Returned(Put(res, "nginx_test", Entry("skipped", {}, {}, {})))
    ELSE LET r == Put(res, "nginx_test", Entry(IF rc = 0 THEN "ok" ELSE "fail", {}, {}, {}))
         IN  Returned(IF rc # 0 THEN Err(r, "nginx config test failed") ELSE r)

\* ok: rc == 0 and "OK" in out, of the YAML parse
test_moonraker_config(res, tree, ok) ==
    IF {"/etc/moonraker.conf", "/usr/data/printer_data/config/moonraker.conf",
        "/data/printer_data/config/moonraker.conf"} \cap tree = {}
    THEN Returned(Put(res, "moonraker_config", Entry("skipped", {}, {}, {})))
    ELSE LET r == Put(res, "moonraker_config", Entry(IF ok THEN "ok" ELSE "fail", {}, {}, {}))
         IN  Returned(IF ~ok THEN Err(r, "moonraker.conf failed YAML parse") ELSE r)

\* rc of `klippy --help` when a klippy script exists, else of `import klipper`
test_klipper_presence(res, tree, rc) ==
    IF {"/usr/local/bin/klippy", "/usr/bin/klippy"} \cap tree # {}
    THEN Returned(Put(res, "klipper_cli", Entry(IF rc = 0 THEN "ok" ELSE "fail", {}, {}, {})))
    ELSE LET r == Put(res, "klipper_module",
                      Entry(IF rc = 0 THEN "present" ELSE "absent", {}, {}, {}))
         IN  Returned(IF rc # 0 THEN Warn(r, "Klipper binary/module not detected") ELSE r)

\* rc of ping, rc2 of getent
test_network(res, rc, rc2) ==
    Returned(Put(Put(res, "network_ping", Entry(IF rc = 0 THEN "ok" ELSE "fail", {}, {}, {})),
                 "dns_resolve", Entry(IF rc2 = 0 THEN "ok" ELSE "fail", {}, {}, {})))

\* reading: "Reading package lists" in out
test_apt(res, tree, rc, reading) ==
    IF "/usr/bin/apt-get" \notin tree
    THEN Returned(Put(res, "apt", Entry("skipped", {}, {}, {})))
    ELSE Returned(Put(res, "apt", Entry(IF reading \/ rc = 0 THEN "ok" ELSE "fail", {}, {}, {})))

\* os.listdir raises OSError, or the scan finds n binaries with libraries
\* missing
test_elf_deps(res, tree, oserror, n) ==
    IF "/usr/bin/ldd" \notin tree /\ "/bin/ldd" \notin tree
    THEN Returned(Put(res, "elf_deps", Entry("skipped", {}, {}, {})))
    ELSE IF oserror THEN Raised(res)
    ELSE LET r == Put(res, "elf_deps", Entry(IF n = 0 THEN "ok" ELSE "fail", {}, {}, {}))
         IN  Returned(IF n > 0
                      THEN Err(r, <<"1", "2">>[n] \o " binaries with missing libraries")
                      ELSE r)

\* os.listdir raises OSError or not
test_kernel_modules_dir(res, tree, oserror) ==
    IF "lib/modules" \notin tree
    THEN Returned(Warn(Put(res, "kernel_modules", Entry("absent", {}, {}, {})),
                       "No /lib/modules directory"))
    ELSE IF oserror THEN Raised(res)
    ELSE Returned(Put(res, "kernel_modules", Entry("present", {}, {}, {})))

-----------------------------------------------------------------------------
(* tools/firmware_validator.py: run_all and the validation of one tree *)

\* run_all, lines 256-266: the probes in the order they are called
ProbeNames ==
    <<"test_structure", "test_diskspace", "test_python_runtime", "test_services_presence",
      "test_nginx_syntax", "test_moonraker_config", "test_klipper_presence", "test_network",
      "test_apt", "test_elf_deps", "test_kernel_modules_dir">>

NProbes == Len(ProbeNames)

\* run_all with the teardown after the probes, no try/finally
run_all_no_finally(i, raised) ==
    IF raised THEN [pc |-> "raised", probe |-> i]
    ELSE IF i < NProbes THEN [pc |-> "probe", probe |-> i + 1]
    ELSE [pc |-> "teardown", probe |-> i + 1]

\* run_all after probe i: on to the next probe, or from the last probe and
\* from a probe that raised into the finally block
run_all_next(i, raised) ==
    IF raised THEN [pc |-> "teardown", probe |-> i]
    ELSE IF i < NProbes THEN [pc |-> "probe", probe |-> i + 1]
    ELSE [pc |-> "teardown", probe |-> i + 1]

\* what probe i can do on `tree` with the results so far, over the exit codes
\* of the commands it runs and the system calls that can raise
ProbeResults(i, res, tree) ==
    CASE i = 1  -> {test_structure(res, tree)}
      [] i = 2  -> {test_diskspace(res, e, mb) : e \in BOOLEAN, mb \in {100, 5000}}
      [] i = 3  -> {test_python_runtime(res, p[1], p[2]) :
                        p \in {<<0, {"yaml", "requests"}>>, <<0, {}>>, <<1, {}>>}}
      [] i = 4  -> {test_services_presence(res, tree)}
      [] i = 5  -> {test_nginx_syntax(res, tree, rc) : rc \in {0, 1}}
      [] i = 6  -> {test_moonraker_config(res, tree, ok) : ok \in BOOLEAN}
      [] i = 7  -> {test_klipper_presence(res, tree, rc) : rc \in {0, 1}}
      [] i = 8  -> {test_network(res, rc, rc2) : rc \in {0, 1}, rc2 \in {0, 2}}
      [] i = 9  -> {test_apt(res, tree, rc, reading) : rc \in {0, 100}, reading \in BOOLEAN}
      [] i = 10 -> {test_elf_deps(res, tree, e, n) : e \in BOOLEAN, n \in {0, 2}}
      [] OTHER  -> {test_kernel_modules_dir(res, tree, e) : e \in BOOLEAN}

\* trees to validate: a rebuilt Debian rootfs, the same without /bin/sh, a
\* tree with neither bin nor anything optional, a vendor rootfs without
\* Python
DebianTree ==
    {"bin", "sbin", "etc", "usr", "lib", "var", "/bin/sh", "/usr/bin/python3",
     "/usr/sbin/nginx", "/etc/moonraker.conf", "/usr/bin/klippy", "/usr/bin/apt-get",
     "/usr/bin/ldd", "lib/modules"}

Trees ==
    {DebianTree,
     DebianTree \ {"/bin/sh"},
     {"sbin", "etc", "usr", "lib", "var", "/usr/bin/python3"},
     {"bin", "sbin", "etc", "usr", "lib", "var", "/bin/sh", "lib/modules"}}

\* __main__, lines 341-342 and 344-345: RootFSValidator(label, root), run_all()
ValStart ==
    /\ vpc = "idle"
    /\ \E label \in {"original", "rebuilt"}, tree \in Trees :
          val' = [label |-> label, tree |-> tree, probe |-> 1, fault |-> "none"]
    /\ results' = InitResults
    /\ vpc' = "setup"
    /\ UNCHANGED <<did, syscalls, report, ckpt, buildRest, qVars, newVars>>

\* Mounts.setup: the four mount commands, each recorded in self.did by _mount
MountsSetup ==
    /\ vpc = "setup"
    /\ \E rc \in [1..Len(MountTargets) -> MountCodes] :
          LET d1 == mount_did(did, MountTargets[1], rc[1])
              d2 == mount_did(d1, MountTargets[2], rc[2])
              d3 == mount_did(d2, MountTargets[3], rc[3])
          IN  /\ did' = mount_did(d3, MountTargets[4], rc[4])
              /\ syscalls' = syscalls \o
                    [i \in 1..Len(MountTargets) |->
                        [cmd |-> "mount", target |-> MountTargets[i], rc |-> rc[i]]]
    /\ vpc' = "probe"
    /\ UNCHANGED <<results, val, report, ckpt, buildRest, qVars, newVars>>

\* run_all: the next probe of the battery
Probe ==
    /\ vpc = "probe"
    /\ \E r \in ProbeResults(val.probe, results, val.tree) :
          LET nx == run_all_next(val.probe, r.raised)
          IN  /\ results' = r.res
              /\ val' = [val EXCEPT !.probe = nx.probe,
                                    !.fault = IF r.raised THEN ProbeNames[val.probe]
                                              ELSE "none"]
              /\ vpc' = nx.pc
    /\ UNCHANGED <<did, syscalls, report, ckpt, buildRest, qVars, newVars>>

\* Mounts.teardown in run_all's finally; an exception in flight then leaves
\* run_all and ends __main__
MountsTeardown ==
    /\ vpc = "teardown"
    /\ syscalls' = syscalls \o
          [i \in 1..Len(did) |-> [cmd |-> "umount", target |-> teardown_order(did)[i], rc |-> 0]]
    /\ did' = <<>>
    /\ vpc' = IF val.fault # "none" THEN "raised" ELSE "save"
    /\ UNCHANGED <<results, val, report, ckpt, buildRest, qVars, newVars>>

\* save_reports: json.dump(self.results)
SaveReports ==
    /\ vpc = "save"
    /\ report' = [written |-> TRUE, results |-> results]
    /\ vpc' = "done"
    /\ UNCHANGED <<did, syscalls, results, val, ckpt, buildRest, qVars, newVars>>

\* nothing of the build is running and no checkpoint file is there
BuildIdle ==
    /\ ckpt = Absent
    /\ tmp = Absent
    /\ pc = "idle"
    /\ cur = 0
    /\ run = InitRun
    /\ executed = <<>>
    /\ codes = <<>>
    /\ ckBefore = JMissing
    /\ wr = InitWr
    /\ post = 0
    /\ prev = InitPrev
    /\ runs = 0
    /\ calls = <<>>
    /\ rd = InitRd

InitValidator == BuildIdle /\ ValIdle /\ QemuIdle /\ NewIdle

NextValidator ==
    \/ ValStart
    \/ MountsSetup
    \/ Probe
    \/ MountsTeardown
    \/ SaveReports

SpecValidator == InitValidator /\ [][NextValidator]_vars

-----------------------------------------------------------------------------
(* tools/firmware_validator.py: compare_roots.  A file is the section it is  *)
(* under and its rank among the names of that section in sorted order.       *)

\* line 311: the length a sample is cut to
SampleLimit == 200

sections == <<"/bin", "/sbin", "/usr/bin", "/usr/sbin", "/etc", "/lib/modules">>

Files(sec, S) == {<<sec, n>> : n \in S}

\* list_rel(root, sub): the files of the tree under `sub`, none when the
\* directory is not there
list_rel(root, sub) == {p \in root : p[1] = sub}

\* the files of S with ranks in lo..hi, in ascending order
RECURSIVE SortRange(_, _, _)
SortRange(S, lo, hi) ==
    IF S = {} THEN <<>>
    ELSE IF lo = hi THEN <<CHOOSE x \in S : TRUE>>
    ELSE LET mid == (lo + hi) \div 2
         IN  SortRange({x \in S : x[2] <= mid}, lo, mid)
                \o SortRange({x \in S : x[2] > mid}, mid + 1, hi)

\* sorted(list(S)) for files of one section
SortedSeq(S) ==
    IF S = {} THEN <<>>
    ELSE LET ranks == {x[2] : x \in S}
         IN  SortRange(S, CHOOSE n \in ranks : \A m \in ranks : n <= m,
                          CHOOSE n \in ranks : \A m \in ranks : n >= m)

\* seq[:n]
Slice(sq, n) == SubSeq(sq, 1, IF Len(sq) < n THEN Len(sq) ELSE n)

\* the counts taken from the samples
compare_roots_sample_counts(orig_root, new_root) ==
    [sec \in {sections[i] : i \in 1..Len(sections)} |->
        LET a == list_rel(orig_root, sec)
            b == list_rel(new_root, sec)
            added == Slice(SortedSeq(b \ a), SampleLimit)
            removed == Slice(SortedSeq(a \ b), SampleLimit)
        IN  [added_count |-> Len(added), removed_count |-> Len(removed),
             added_sample |-> added, removed_sample |-> removed]]

\* compare_roots, lines 306-318: the dict dumped to inventory_diff.json
compare_roots(orig_root, new_root) ==
    [sec \in {sections[i] : i \in 1..Len(sections)} |->
        LET a == list_rel(orig_root, sec)
            b == list_rel(new_root, sec)
            added == Slice(SortedSeq(b \ a), SampleLimit)
            removed == Slice(SortedSeq(a \ b), SampleLimit)
        IN  [added_count |-> Cardinality(b \ a), removed_count |-> Cardinality(a \ b),
             added_sample |-> added, removed_sample |-> removed]]

\* trees to compare: an empty one, two small ones with files outside the
\* six sections, and three with sections of about SampleLimit files
InvTrees ==
    {{},
     Files("/bin", 1..3) \cup Files("/etc", {1}) \cup Files("/opt", {1, 2}),
     Files("/bin", 2..4) \cup Files("/sbin", {1}) \cup Files("/lib/modules", {5})
        \cup Files("/opt", {3}),
     Files("/usr/bin", 1..(SampleLimit + 1)) \cup Files("/etc", {1, 2}),
     Files("/usr/bin", (SampleLimit + 1)..(SampleLimit + 5))
        \cup Files("/usr/sbin", 1..SampleLimit),
     Files("/usr/bin", 3..(2 * SampleLimit + 9)) \cup Files("/usr/sbin", {SampleLimit + 7})}

InvFrame == UNCHANGED <<ckpt, buildRest, valVars, qVars, progVars, genVars, vf>>

\* __main__, line 347: compare_roots(orig, rebuilt)
CompareRoots ==
    /\ ~inv.ran
    /\ inv' = [inv EXCEPT !.ran = TRUE, !.diff = compare_roots(inv.orig, inv.new)]
    /\ InvFrame

\* the same with the two directories given the other way round
CompareSwapped ==
    /\ ~inv.ranBack
    /\ inv' = [inv EXCEPT !.ranBack = TRUE, !.back = compare_roots(inv.new, inv.orig)]
    /\ InvFrame

InitCompare ==
    /\ BuildIdle /\ ValIdle /\ QemuIdle /\ RestIdle
    /\ \E o \in InvTrees, n \in InvTrees : inv = [NoInv EXCEPT !.orig = o, !.new = n]

NextCompare == CompareRoots \/ CompareSwapped

SpecCompare == InitCompare /\ [][NextCompare]_vars

-----------------------------------------------------------------------------
(* tools/qemu_test.py: pure parts.  Time is counted in polling intervals of  *)
(* 0.5 s; only sleeps and waits take time.  The log is a string of bytes,    *)
(* "#" standing for a byte that is no UTF-8.                                 *)

\* the smoke test's timeout in seconds, 1..MaxTimeout
MaxTimeout == 2

\* writes the emulator makes to its log in one run
MaxWrites == 2

\* time.sleep(0.5) at the top of the polling loop: intervals in a second
TicksPerSecond == 2

BOOT_OK_PATTERNS == <<"Linux version", "Booting Linux", "Starting kernel">>

\* bytes.decode("utf-8", errors="ignore"): undecodable bytes are dropped
RECURSIVE Decode(_)
Decode(b) ==
    IF b = "" THEN ""
    ELSE (IF SubSeq(b, 1, 1) = "#" THEN "" ELSE SubSeq(b, 1, 1)) \o Decode(SubSeq(b, 2, Len(b)))

\* case folding of re.I, letter by letter
ToLower ==
    [c \in {SubSeq("ABCDEFGHIJKLMNOPQRSTUVWXYZ", i, i) : i \in 1..26} |->
        LET i == CHOOSE i \in 1..26 : SubSeq("ABCDEFGHIJKLMNOPQRSTUVWXYZ", i, i) = c
        IN  SubSeq("abcdefghijklmnopqrstuvwxyz", i, i)]

RECURSIVE Lower(_)
Lower(s) ==
    IF s = "" THEN ""
    ELSE LET c == SubSeq(s, 1, 1)
         IN  (IF c \in DOMAIN ToLower THEN ToLower[c] ELSE c) \o Lower(SubSeq(s, 2, Len(s)))

\* lines 166-169: some pattern's search(chunk) matches
Matches(chunk) ==
    \E i \in 1..Len(BOOT_OK_PATTERNS) : StrIn(Lower(BOOT_OK_PATTERNS[i]), Lower(chunk))

\* the timeout result with had_output taken for true
timeout_status_failed(had_output) == "failed"

\* lines 195-196: the status returned after the timeout
timeout_status(had_output) == IF had_output THEN "failed" ELSE "failed_no_output"

\* save_checkpoint(stage, **kw) up to the json.dump: load_checkpoint gives
\* {"stage": "none", "meta": {}} when there is no file and raises when
\* json.load does; data["stage"] = stage raises on a value that is no dict
qemu_save_checkpoint(f, stage, kw) ==
    IF f.kind = "absent"
    THEN [raised |-> FALSE, data |-> Obj(JStr(stage), TRUE, kw, {}, FALSE)]
    ELSE IF ~Parses(f) \/ f.top # "obj" THEN [raised |-> TRUE, data |-> f]
    ELSE [raised |-> FALSE,
          data |-> [f EXCEPT !.stage = JStr(stage), !.hasMeta = TRUE,
                             !.meta = Update(f.meta, kw)]]

\* the keyword argument meta={...} of main's save_checkpoint calls, the dict
\* rendered as text
MetaKw(text) == [k \in {"meta"} |-> text]

\* main's return value after a skip or a run that did not pass
nonpass_exit(strict) == IF strict THEN 2 ELSE 0

\* what the emulator writes to its log at a time
Pieces == {"Linux ver", "Linux ver#", "sion 5", "BOOTING LINUX"}

\* checkpoint files the smoke test may find: none, bytes that are no JSON, a
\* torn write, a JSON list, and objects as the build leaves them
QemuFiles ==
    {Absent, Garbage, Partial, NonObj("list", ""),
     Obj(JStr("validate_fw_complete"), FALSE, EmptyMeta, {}, TRUE),
     Obj(JStr("validate_fw"), TRUE, ValidateOkPatch, {}, TRUE)}

-----------------------------------------------------------------------------
(* tools/progress.py and the timeline lines of tools/qemu_test.py.  The file *)
(* is the sequence of JSON texts it holds: update_progress replaces it by    *)
(* one object, qemu_test appends one object per line.  json.load accepts a   *)
(* file that holds exactly one JSON text.                                    *)

MaxHistory == 2

MaxLines == 2

ProgressStages == {"unsquash", "validate_fw"}

\* a timeline object: "history", "current", and the keys of a qemu_test line
Doc(history, current, line) == [history |-> history, current |-> current, line |-> line]

\* _read_json, lines 25-30: {} on any exception (no file, no JSON, extra data)
progress_read(p) == IF Len(p) = 1 THEN p[1] ELSE Doc(<<>>, "", "")

\* update_progress, lines 55-73: data.get("history", []) gains one entry,
\* "current" is set, the other keys of data are kept, _write_json replaces
\* the file
update_progress(p, stage, status) ==
    LET data == progress_read(p)
    IN  <<[data EXCEPT !.history = Append(@, [stage |-> stage, status |-> status]),
                       !.current = stage]>>

\* get_history, lines 75-78
get_history(p) == progress_read(p).history

\* qemu_test.save_checkpoint, lines 61-68: open(PROGRESS_JSON, "a") and one
\* line {"ts": ..., "stage": ..., "meta": ...}
progress_append(p, stage) == Append(p, Doc(<<>>, "", stage))

\* a stage calls update_progress
UpdateProgress ==
    /\ Len(get_history(progress)) < MaxHistory
    /\ \E stage \in ProgressStages, status \in {"ok", "error"} :
          progress' = update_progress(progress, stage, status)
    /\ UNCHANGED <<hist, ckpt, buildRest, valVars, qVars, genVars, vf, inv>>

\* the timeline is read
GetHistory ==
    /\ hist' = [prev |-> hist.last, last |-> get_history(progress)]
    /\ UNCHANGED <<progress, ckpt, buildRest, valVars, qVars, genVars, vf, inv>>

-----------------------------------------------------------------------------
(* tools/qemu_test.py: main and run_qemu *)

QExit(status, code) == [qm EXCEPT !.status = status, !.code = code]

\* main, lines 201-211: the environment is read (kernel: what find_kernel
\* will find; eps: the loop's own work takes time, less than an interval)
\* and save_checkpoint(stage="qemu_test", meta={...}) is called
QemuStart ==
    /\ qpc = "idle"
    /\ \E e \in [enable : BOOLEAN, strict : BOOLEAN, timeout_s : 1..MaxTimeout,
                 qemu_bin : BOOLEAN, kernel : BOOLEAN, eps : BOOLEAN] :
          LET r == qemu_save_checkpoint(ckpt, "qemu_test",
                        MetaKw(IF e.strict THEN "strict" ELSE "not strict"))
          IN  /\ env' = e
              /\ IF r.raised
                 THEN /\ qpc' = "exited"
                      /\ qm' = [qm EXCEPT !.status = "raised", !.code = 1, !.ckIn = ckpt]
                      /\ UNCHANGED <<ckpt, progress>>
                 ELSE /\ qpc' = "q_gate"
                      /\ qm' = [qm EXCEPT !.status = "running", !.ckIn = ckpt]
                      /\ ckpt' = r.data
                      /\ progress' = progress_append(progress, "qemu_test")
    /\ UNCHANGED <<bootlog, child, rq, now, qreport, buildRest, valVars, hist, genVars, vf, inv>>

\* main, lines 213-245: the three skips, else the old log is removed
QemuGate ==
    /\ qpc = "q_gate"
    /\ IF ~env.enable
       THEN /\ qreport' = [exists |-> TRUE, status |-> "skipped", reason |-> "disabled"]
            /\ qm' = QExit("exited", 0)
            /\ qpc' = "exited"
       ELSE IF ~env.qemu_bin
       THEN /\ qreport' = [exists |-> TRUE, status |-> "skipped", reason |-> "qemu not installed"]
            /\ qm' = QExit("exited", nonpass_exit(env.strict))
            /\ qpc' = "exited"
       ELSE IF ~env.kernel
       THEN /\ qreport' = [exists |-> TRUE, status |-> "skipped", reason |-> "kernel not found"]
            /\ qm' = QExit("exited", nonpass_exit(env.strict))
            /\ qpc' = "exited"
       ELSE /\ qpc' = "q_spawn"
            /\ UNCHANGED <<qreport, qm>>
    /\ bootlog' = NoLog
    /\ UNCHANGED <<env, child, rq, now, ckpt, buildRest, valVars, newVars>>

\* run_qemu, lines 145-156: the log is opened "wb" and the child is started,
\* or Popen raises and run_qemu returns "error"
QemuSpawn ==
    /\ qpc = "q_spawn"
    /\ bootlog' = [exists |-> TRUE, text |-> ""]
    /\ \E o \in {"started", "FileNotFoundError", "OSError"} :
          IF o = "started"
          THEN /\ child' = [child EXCEPT !.state = "running"]
               /\ rq' = [rq EXCEPT !.start = now]
               /\ qm' = [qm EXCEPT !.launched = TRUE]
               /\ qpc' = "q_poll"
          ELSE /\ rq' = [rq EXCEPT !.status = "error", !.reason = o]
               /\ qm' = [qm EXCEPT !.ended = now]
               /\ qpc' = "q_report"
               /\ child' = child
    /\ UNCHANGED <<env, now, qreport, ckpt, buildRest, valVars, newVars>>

\* the emulator writes to its log
ChildWrite ==
    /\ child.state = "running"
    /\ child.writes < MaxWrites
    /\ \E p \in Pieces : bootlog' = [bootlog EXCEPT !.text = @ \o p]
    /\ child' = [child EXCEPT !.writes = @ + 1]
    /\ UNCHANGED <<qpc, env, rq, now, qreport, qm, ckpt, buildRest, valVars, newVars>>

\* the emulator exits on its own
ChildExit ==
    /\ child.state = "running"
    /\ child' = [child EXCEPT !.state = "exited"]
    /\ UNCHANGED <<qpc, env, bootlog, rq, now, qreport, qm, ckpt, buildRest, valVars, newVars>>

\* run_qemu, lines 157-172, 174, 184: one round of the loop: sleep, read
\* what the log has gained since last_size, scan it, test matched and the
\* elapsed time
QemuPoll ==
    /\ qpc = "q_poll"
    /\ now' = now + 1
    /\ LET chunk   == Decode(SubSeq(bootlog.text, rq.last_size + 1, Len(bootlog.text)))
           matched == chunk # "" /\ Matches(chunk)
           elapsed == now' - rq.start
           expired == \/ elapsed > env.timeout_s * TicksPerSecond
                      \/ (env.eps /\ elapsed = env.timeout_s * TicksPerSecond)
       IN  /\ rq' = [rq EXCEPT !.matched = matched,
                               !.last_size = IF chunk # "" THEN Len(bootlog.text) ELSE @,
                               !.whole = @ \/ (~expired /\ Matches(bootlog.text))]
           /\ qpc' = IF matched THEN "q_matched"
                     ELSE IF expired THEN "q_timeout" ELSE "q_poll"
    /\ UNCHANGED <<env, bootlog, child, qreport, qm, ckpt, buildRest, valVars, newVars>>

\* the escalation left out: a child that outlives the wait is left running
Terminate_no_kill(waitTicks) ==
    IF child.state = "exited"
    THEN {[child |-> [child EXCEPT !.reaped = TRUE], took |-> 0]}
    ELSE {[child |-> [child EXCEPT !.state = "terminated", !.reaped = TRUE,
                                   !.signals = Append(@, "SIGTERM")],
           took  |-> d] : d \in 0..waitTicks}
         \cup {[child |-> [child EXCEPT !.signals = Append(@, "SIGTERM")],
                took  |-> waitTicks]}

\* terminate(), then wait(timeout): a child that has exited is reaped by
\* terminate's poll and gets no signal; else it exits within the timeout
\* after `d` intervals, or the wait raises TimeoutExpired and kill() is sent
\* (no wait follows the kill).  [child, took]
Terminate(waitTicks) ==
    IF child.state = "exited"
    THEN {[child |-> [child EXCEPT !.reaped = TRUE], took |-> 0]}
    ELSE {[child |-> [child EXCEPT !.state = "terminated", !.reaped = TRUE,
                                   !.signals = Append(@, "SIGTERM")],
           took  |-> d] : d \in 0..waitTicks}
         \cup {[child |-> [child EXCEPT !.state = "killed",
                                        !.signals = @ \o <<"SIGTERM", "SIGKILL">>],
                took  |-> waitTicks]}

\* run_qemu, lines 174-182: one more second, the child is stopped, "passed"
QemuMatched ==
    /\ qpc = "q_matched"
    /\ \E t \in Terminate(3 * TicksPerSecond) :
          /\ child' = t.child
          /\ now' = now + TicksPerSecond + t.took
    /\ rq' = [rq EXCEPT !.status = "passed", !.reason = "kernel banner detected"]
    /\ qm' = [qm EXCEPT !.ended = now']
    /\ qpc' = "q_report"
    /\ UNCHANGED <<env, bootlog, qreport, ckpt, buildRest, valVars, newVars>>

\* run_qemu, lines 184-197: the child is stopped, the result is judged by
\* the size of the log
QemuTimeout ==
    /\ qpc = "q_timeout"
    /\ \E t \in Terminate(2 * TicksPerSecond) :
          /\ child' = t.child
          /\ now' = now + t.took
    /\ rq' = [rq EXCEPT !.status = timeout_status(bootlog.exists /\ Len(bootlog.text) > 0),
                        !.reason = "timeout waiting for kernel banner"]
    /\ qm' = [qm EXCEPT !.ended = now']
    /\ qpc' = "q_report"
    /\ UNCHANGED <<env, bootlog, qreport, ckpt, buildRest, valVars, newVars>>

\* main, lines 248-271: the report is written, the checkpoint is advanced,
\* main returns
QemuReport ==
    /\ qpc = "q_report"
    /\ qreport' = [exists |-> TRUE, status |-> rq.status, reason |-> rq.reason]
    /\ LET r == IF rq.status = "passed"
                THEN qemu_save_checkpoint(ckpt, "qemu_test_passed", EmptyMeta)
                ELSE qemu_save_checkpoint(ckpt, "qemu_test_done", MetaKw(rq.status))
       IN  IF r.raised
           THEN qm' = QExit("raised", 1) /\ UNCHANGED <<ckpt, progress>>
           ELSE /\ ckpt' = r.data
                /\ progress' = progress_append(progress,
                                   IF rq.status = "passed" THEN "qemu_test_passed"
                                   ELSE "qemu_test_done")
                /\ qm' = QExit("exited", IF rq.status = "passed" THEN 0
                                         ELSE nonpass_exit(env.strict))
    /\ qpc' = "exited"
    /\ UNCHANGED <<env, bootlog, child, rq, now, buildRest, valVars, hist, genVars, vf, inv>>

InitQemu ==
    /\ ckpt \in QemuFiles
    /\ tmp = Absent /\ pc = "idle" /\ cur = 0 /\ run = InitRun /\ executed = <<>>
    /\ codes = <<>> /\ ckBefore = JMissing /\ wr = InitWr /\ post = 0 /\ prev = InitPrev
    /\ runs = 0 /\ calls = <<>> /\ rd = InitRd
    /\ ValIdle
    /\ QemuIdle
    /\ NewIdle

NextQemu ==
    \/ QemuStart
    \/ QemuGate
    \/ QemuSpawn
    \/ ChildWrite
    \/ ChildExit
    \/ QemuPoll
    \/ QemuMatched
    \/ QemuTimeout
    \/ QemuReport

SpecQemu == InitQemu /\ [][NextQemu]_vars

\* run_qemu is straight-line code in one thread: once the child is started
\* the loop body, and the stop sequence after it, are always executed.  The
\* first conjunct is WF_vars(QemuPoll) with ENABLED <<QemuPoll>>_vars, which
\* is qpc = "q_poll" (a round always advances `now`), written out
SpecQemuLive ==
    /\ SpecQemu
    /\ (<>[](qpc = "q_poll") => []<><<QemuPoll>>_vars)
    /\ WF_vars(QemuMatched) /\ WF_vars(QemuTimeout)

-----------------------------------------------------------------------------
(* tools/validate_fw.py run on its own.  A component path is a file, a       *)
(* directory, or missing.                                                    *)

REQUIRED == <<"rootfs", "sw-description">>

OPTIONAL == <<"uboot", "kernel">>

Components == {REQUIRED[i] : i \in 1..Len(REQUIRED)} \cup {OPTIONAL[i] : i \in 1..Len(OPTIONAL)}

\* verify_component, lines 28-33: the "status" of the result
verify_component(path) ==
    IF path = "missing" THEN "missing"
    ELSE IF path = "dir" THEN "error"
    ELSE "ok"

\* main, lines 40-45: the required components whose status is not "ok"
missing_required(res) ==
    SelectSeq(REQUIRED, LAMBDA n : res[n] # "ok")

\* ", ".join(missing)
JoinMissing(missing) ==
    IF missing = <<>> THEN ""
    ELSE IF Len(missing) = 1 THEN missing[1]
    ELSE missing[1] \o ", " \o missing[2]

VfFrame == UNCHANGED <<hist, buildRest, valVars, qVars, genVars, inv>>

\* main, line 36: update_progress(..., status="info")
ValidateStart ==
    /\ vf.pc = "idle"
    /\ \E comps \in [Components -> {"file", "dir", "missing"}] :
          vf' = [vf EXCEPT !.pc = "v_verify", !.comps = comps]
    /\ progress' = update_progress(progress, "validate_fw", "info")
    /\ ckpt' = ckpt
    /\ VfFrame

\* main, lines 37-55: required first, optional after, then the report file
ValidateVerify ==
    /\ vf.pc = "v_verify"
    /\ LET res == [n \in Components |-> verify_component(vf.comps[n])]
       IN  vf' = [vf EXCEPT !.pc = "v_finish", !.results = res,
                            !.missing = missing_required(res),
                            !.report = [written |-> TRUE, data |-> res]]
    /\ UNCHANGED <<progress, ckpt>>
    /\ VfFrame

\* main, lines 57-64: update_progress, stage_done (which may raise), exit
ValidateFinish ==
    /\ vf.pc = "v_finish"
    /\ progress' = update_progress(progress, "validate_fw",
                                   IF vf.missing # <<>> THEN "error" ELSE "ok")
    /\ LET o == validate_fw_main(ckpt, JoinMissing(vf.missing))
       IN  /\ ckpt' = IF o.write THEN o.data ELSE ckpt
           /\ vf' = [vf EXCEPT !.pc = "exited", !.exit = o.exit]
    /\ VfFrame

InitValidateFw ==
    /\ ckpt \in InitFiles
    /\ tmp = Absent /\ pc = "idle" /\ cur = 0 /\ run = InitRun /\ executed = <<>>
    /\ codes = <<>> /\ ckBefore = JMissing /\ wr = InitWr /\ post = 0 /\ prev = InitPrev
    /\ runs = 0 /\ calls = <<>> /\ rd = InitRd
    /\ ValIdle /\ QemuIdle /\ NewIdle

NextValidateFw == ValidateStart \/ ValidateVerify \/ ValidateFinish

SpecValidateFw == InitValidateFw /\ [][NextValidateFw]_vars

-----------------------------------------------------------------------------
(* tools/generate_fw.py: main and try_extract_rootfs.  Every external tool   *)
(* is given by its outcome: it cannot be started, or it exits zero or        *)
(* nonzero, with the output it prints.                                       *)

PermTexts == {"set_attributes: Operation not permitted"}

CreatedTexts == {"created 12 files"}

Stderrs == PermTexts \cup {"", "Write on output file failed"}

Stdouts == CreatedTexts \cup {"", "created files", "12 inodes"}

\* re.search(r"created\s+\d+\s+files", s)
CreatedFiles(s) ==
    LET Ch(i) == SubSeq(s, i, i)
        WS == {" ", "\t"}
        Digits == {SubSeq("0123456789", i, i) : i \in 1..10}
    IN  \E a \in 1..(Len(s) - 6) :
          /\ SubSeq(s, a, a + 6) = "created"
          /\ \E b \in (a + 8)..Len(s) :
                /\ \A i \in (a + 7)..(b - 1) : Ch(i) \in WS
                /\ \E c \in (b + 1)..Len(s) :
                      /\ \A i \in b..(c - 1) : Ch(i) \in Digits
                      /\ \E d \in (c + 1)..(Len(s) - 4) :
                            /\ \A i \in c..(d - 1) : Ch(i) \in WS
                            /\ SubSeq(s, d, d + 4) = "files"

\* either marker taken for enough
primary_pass_either(rc, stderr, stdout) ==
    rc = 0 \/ StrIn("Operation not permitted", stderr) \/ CreatedFiles(stdout)

\* try_extract_rootfs, lines 73-79: the first attempt returns True
primary_pass(rc, stderr, stdout) ==
    rc = 0 \/ (StrIn("Operation not permitted", stderr) /\ CreatedFiles(stdout))

\* binwalk's rows: first token and the rest of the line
BwLine(tok, text) == [tok |-> tok, text |-> text]

BwOuts ==
    {<<>>,
     <<BwLine("0", "uImage header")>>,
     <<BwLine("0", "uImage header"), BwLine("4096", "Squashfs filesystem, rootfs")>>,
     <<BwLine("0x100", "rootfs blob"), BwLine("512", "CPIO ROOTFS")>>,
     <<BwLine("0064", "JFFS2 rootfs"), BwLine("2048", "rootfs copy")>>}

\* str(int(t)) of a decimal token, as the f-string of line 120 prints it
IntText(t) ==
    LET lead == {i \in 1..Len(t) : \A j \in 1..i : SubSeq(t, j, j) = "0"}
        n == Cardinality(lead)
    IN  IF n = Len(t) THEN "0" ELSE SubSeq(t, n + 1, Len(t))

\* the last such row taken
rootfs_offset_last(bw_out) ==
    LET isdigit(t) == t # "" /\ \A i \in 1..Len(t) :
                         SubSeq(t, i, i) \in {SubSeq("0123456789", k, k) : k \in 1..10}
        hits == {i \in 1..Len(bw_out) :
                   /\ StrIn("rootfs", Lower(bw_out[i].tok \o " " \o bw_out[i].text))
                   /\ isdigit(bw_out[i].tok)}
    IN  IF hits = {} THEN "none"
        ELSE IntText(bw_out[CHOOSE i \in hits : \A j \in hits : j <= i].tok)

\* lines 89-95: the first token of the first row that mentions rootfs and
\* starts with a decimal number, as an integer; "none" when there is no such
\* row
rootfs_offset(bw_out) ==
    LET isdigit(t) == t # "" /\ \A i \in 1..Len(t) :
                         SubSeq(t, i, i) \in {SubSeq("0123456789", k, k) : k \in 1..10}
        hits == {i \in 1..Len(bw_out) :
                   /\ StrIn("rootfs", Lower(bw_out[i].tok \o " " \o bw_out[i].text))
                   /\ isdigit(bw_out[i].tok)}
    IN  IF hits = {} THEN "none" ELSE IntText(bw_out[Min(hits)].tok)

FileTypes ==
    {"Squashfs filesystem, little endian", "Linux rev 1.0 ext4 filesystem data",
     "ASCII cpio archive", "XZ compressed data", "Zstandard compressed data", "data",
     "Squashfs filesystem, xz compressed", "ext4 image (cpio, lz4)",
     "cpio archive (XZ compressed)", "squashfs in cpio"}

\* a later test of the chain put first
sniff_branch_cpio_first(file_type) ==
    IF StrIn("cpio", Lower(file_type)) THEN "cpio"
    ELSE IF StrIn("Squashfs", file_type) THEN "squashfs"
    ELSE IF StrIn("ext4", Lower(file_type)) THEN "ext4"
    ELSE IF \E x \in {"zstd", "lz4", "xz"} : StrIn(x, Lower(file_type)) THEN "compressed"
    ELSE "unrecognized"

\* lines 130-158: the branch taken for a file type
sniff_branch(file_type) ==
    IF StrIn("Squashfs", file_type) THEN "squashfs"
    ELSE IF StrIn("ext4", Lower(file_type)) THEN "ext4"
    ELSE IF StrIn("cpio", Lower(file_type)) THEN "cpio"
    ELSE IF \E x \in {"zstd", "lz4", "xz"} : StrIn(x, Lower(file_type)) THEN "compressed"
    ELSE "unrecognized"

\* lines 130-153: the tools the branch for a sniffed type starts
branch_tools(b) ==
    CASE b = "squashfs" -> {"unsquashfs"}
      [] b = "ext4" -> {"guestmount"}
      [] b = "cpio" -> {"cpio"}
      [] b = "compressed" -> {"zstd", "lz4", "xz"}
      [] OTHER -> {}

GenFrame == UNCHANGED <<ckpt, buildRest, valVars, qVars, progVars, vf, inv>>

\* an exception nobody catches: the interpreter prints the traceback, exit 1
GenRaise ==
    /\ gen' = [gen EXCEPT !.raised = TRUE, !.exit = 1]
    /\ gpc' = "exited"

\* try_extract_rootfs returns `ok`
GenReturns(g, ok) ==
    /\ gen' = [g EXCEPT !.ok = IF ok THEN "True" ELSE "False"]
    /\ gpc' = "g_return"

\* main, lines 164-204: directories are made if not there (what an earlier
\* run left in extracted/rootfs stays), the image is downloaded
GenStart ==
    /\ gpc = "idle"
    /\ \E old \in BOOLEAN, downloaded \in BOOLEAN :
          IF downloaded
          THEN /\ gen' = [gen EXCEPT !.dir = IF old THEN {"earlier run"} ELSE {}]
               /\ gpc' = "g_primary"
          ELSE /\ gen' = [gen EXCEPT !.exit = 1]
               /\ gpc' = "exited"
    /\ GenFrame

\* try_extract_rootfs, lines 64-79: makedirs(exist_ok=True), unsquashfs on
\* the image; subprocess.run raises when unsquashfs cannot be started
GenPrimary ==
    /\ gpc = "g_primary"
    /\ \/ GenRaise
       \/ \E rc \in {0, 1}, stderr \in Stderrs, stdout \in Stdouts, wrote \in BOOLEAN :
             LET made == rc = 0 \/ CreatedFiles(stdout)
                 g == [gen EXCEPT !.rc = rc, !.stderr = stderr, !.stdout = stdout,
                                  !.dir = IF wrote \/ made THEN @ \cup {"primary"} ELSE @]
             IN  IF primary_pass(rc, stderr, stdout)
                 THEN GenReturns([g EXCEPT !.primary = "pass", !.tree = made], TRUE)
                 ELSE /\ gen' = [g EXCEPT !.primary = "fail"]
                      /\ gpc' = "g_scan"
    /\ GenFrame

\* lines 83-95: binwalk (any failure gives no rows), the offset is looked up
GenScan ==
    /\ gpc = "g_scan"
    /\ \E bw_out \in BwOuts :
          gen' = [gen EXCEPT !.bw = bw_out, !.offset = rootfs_offset(bw_out)]
    /\ gpc' = "g_carve"
    /\ GenFrame

\* lines 98-124: without an offset the image is unpacked as a cpio archive
\* and must hold a member rootfs; with one, dd copies from the offset on
\* (its exit code is not looked at).  An exception ends in return False
GenCarve ==
    /\ gpc = "g_carve"
    /\ IF gen.offset = "none"
       THEN \E o \in {"exception", "no rootfs", "rootfs"} :
               IF o = "rootfs"
               THEN gen' = [gen EXCEPT !.carve = "cpio"] /\ gpc' = "g_sniff"
               ELSE GenReturns([gen EXCEPT !.carve = "cpio"], FALSE)
       ELSE \E o \in {"exception", "ran"} :
               IF o = "ran"
               THEN gen' = [gen EXCEPT !.carve = "dd"] /\ gpc' = "g_sniff"
               ELSE GenReturns([gen EXCEPT !.carve = "dd"], FALSE)
    /\ GenFrame

\* line 127: check_output(["file", "-b", rootfs_file]) raises when file
\* cannot be started or exits nonzero
GenSniff ==
    /\ gpc = "g_sniff"
    /\ \/ GenRaise
       \/ \E t \in FileTypes :
             /\ gen' = [gen EXCEPT !.file_type = t, !.branch = sniff_branch(t)]
             /\ gpc' = "g_dispatch"
    /\ GenFrame

\* lines 130-159: the branch for the file type.  o: the branch's tool cannot
\* be started, exits zero, or exits nonzero; a shell command line never
\* raises; guestmount covers the directory with the mounted image
GenDispatch ==
    /\ gpc = "g_dispatch"
    /\ \E o \in {"unavailable", "zero", "nonzero"} :
          LET b == gen.branch
              wrote == IF o = "zero" THEN gen.dir \cup {"nested"} ELSE gen.dir
              g == IF b = "unrecognized" THEN gen
                   ELSE [gen EXCEPT !.tools = branch_tools(b), !.out = o]
          IN  IF b = "squashfs"
              THEN IF o = "unavailable"
                   THEN gen' = [g EXCEPT !.raised = TRUE, !.exit = 1] /\ gpc' = "exited"
                   ELSE GenReturns([g EXCEPT !.dir = wrote, !.tree = (o = "zero")],
                                   o = "zero")
              ELSE IF b = "ext4"
              THEN IF o = "unavailable"
                   THEN gen' = [g EXCEPT !.raised = TRUE, !.exit = 1] /\ gpc' = "exited"
                   ELSE GenReturns([g EXCEPT !.dir = IF o = "zero" THEN {"nested"} ELSE @,
                                             !.tree = (o = "zero")], TRUE)
              ELSE IF b = "cpio"
              THEN GenReturns([g EXCEPT !.dir = wrote, !.tree = (o = "zero")], TRUE)
              ELSE IF b = "compressed"
              THEN \E dec \in BOOLEAN : GenReturns([g EXCEPT !.dec = dec], dec)
              ELSE GenReturns(g, FALSE)
    /\ GenFrame

\* main, lines 206-221
GenReturn ==
    /\ gpc = "g_return"
    /\ gen' = [gen EXCEPT !.exit = IF gen.ok = "True" THEN 0 ELSE 1]
    /\ gpc' = "exited"
    /\ GenFrame

InitGenerate == BuildIdle /\ ValIdle /\ QemuIdle /\ NewIdle

NextGenerate ==
    \/ GenStart
    \/ GenPrimary
    \/ GenScan
    \/ GenCarve
    \/ GenSniff
    \/ GenDispatch
    \/ GenReturn

SpecGenerate == InitGenerate /\ [][NextGenerate]_vars

-----------------------------------------------------------------------------
(* the timeline file under its writers, called in any order *)

\* qemu_test.save_checkpoint called as main calls it, lines 53-68
QemuSaveCheckpoint ==
    /\ Len(progress) < MaxLines
    /\ \E stage \in {"qemu_test", "qemu_test_done"} :
          LET r == qemu_save_checkpoint(ckpt, stage, EmptyMeta)
          IN  /\ ~r.raised
              /\ ckpt' = r.data
              /\ progress' = progress_append(progress, stage)
    /\ UNCHANGED <<hist, buildRest, valVars, qVars, genVars, vf, inv>>

InitProgress ==
    /\ ckpt \in {Absent, Garbage}
    /\ BuildIdle /\ ValIdle /\ QemuIdle /\ NewIdle

NextProgress == UpdateProgress \/ GetHistory \/ QemuSaveCheckpoint

SpecProgress == InitProgress /\ [][NextProgress]_vars

-----------------------------------------------------------------------------
(* the checkpoint file under all its writers, from no file on: build and     *)
(* fetch runs, each stage script started by hand, the smoke test's           *)
(* save_checkpoint, in any order, killed at any point                        *)

\* main() of stage script i on the checkpoint file `f`
script_main(i, f, envOk, missing) ==
    CASE i = 1 -> detect_rootfs_main(f, envOk)
      [] i = 2 -> unsquash_main(f, envOk)
      [] i = 3 -> inject_upstream_main(f, envOk)
      [] i = 4 -> repack_fw_main(f, envOk)
      [] OTHER -> validate_fw_main(f, missing)

\* python3 tools/<stage>.py from the shell: the script's __main__ guard
StageScriptAlone ==
    /\ pc = "idle"
    /\ runs < MaxRuns
    /\ runs' = runs + 1
    /\ prev' = PrevOf
    /\ \E i \in 1..NStages, envOk \in BOOLEAN, missing \in MissingSets \cup {""} :
          LET o == script_main(i, ckpt, envOk, missing)
              r == [InitRun EXCEPT !.mode = "script", !.fkind = ckpt.kind,
                                   !.status = "running", !.ck0 = ckpt]
          IN  /\ executed' = <<stages[i]>>
              /\ cur' = i
              /\ ckBefore' = StoredStage(ckpt)
              /\ IF o.write
                 THEN /\ wr' = [mode |-> o.mode, step |-> "start", data |-> o.data,
                                before |-> ckpt]
                      /\ post' = o.exit
                      /\ codes' = <<>>
                      /\ run' = r
                      /\ pc' = "a_write"
                 ELSE /\ codes' = <<o.exit>>
                      /\ run' = [r EXCEPT !.status = "exited", !.code = o.exit, !.at = "end"]
                      /\ pc' = "idle"
                      /\ UNCHANGED <<wr, post>>
    /\ UNCHANGED <<ckpt, tmp, calls, rd, otherVars>>

\* the smoke test's save_checkpoint while nothing else runs
SmokeTest == pc = "idle" /\ QemuSaveCheckpoint

InitWriters == BuildIdle /\ ValIdle /\ QemuIdle /\ NewIdle

\* the stages a build run starts in these behaviours: unsquash never finds
\* artifacts.rootfs_source, and no writer leaves a stage that resumes at
\* inject_upstream or at repack_fw
WritersStages == {"detect_rootfs", "unsquash", "validate_fw"}

NextWriters ==
    \/ StartBuild
    \/ BuildPrereq
    \/ BuildIndex
    \/ RunStage
    \/ DetectRootfs
    \/ Unsquash
    \/ ValidateFw
    \/ BuildCheckpoint
    \/ StartFetch
    \/ FetchScript
    \/ FetchCheckpoint
    \/ StageScriptAlone
    \/ SmokeTest
    \/ WriteOpen
    \/ WritePartial
    \/ WriteFull
    \/ WriteReplace
    \/ Kill

SpecWriters == InitWriters /\ [][NextWriters]_vars

-----------------------------------------------------------------------------
(* properties *)

IsPrefix(a, b) == Len(a) <= Len(b) /\ SubSeq(b, 1, Len(a)) = a

Unparsable == {"garbage", "empty", "partial"}

\* C1: a build run that finds the checkpoint "<stage k>_complete", the form
\* the orchestrator writes after stage k, invokes only the stages after k, in
\* list order, and when it exits 0 it has invoked exactly those.
C1_ResumeAfterCompleted ==
    \A k \in 1..NStages :
        (run.mode = "build" /\ run.stage = JStr(stages[k] \o "_complete")) =>
            /\ IsPrefix(executed, SubSeq(stages, k + 1, NStages))
            /\ (run.status = "exited" /\ run.code = 0
                    => executed = SubSeq(stages, k + 1, NStages))

\* C2: a build run that finds no checkpoint file, or one that does not parse,
\* is not ended by the read: it reads "none", its resume index is 0, the
\* stages it invokes are the first ones of the list in order, and after a
\* stage exited zero the next one to run is the next of the list.
C2_NoCheckpointStartsAtZero ==
    (run.mode = "build" /\ run.fkind \in Unparsable \cup {"absent"}) =>
        /\ run.stage = JStr("none")
        /\ run.status # "raised"
        /\ run.idx = 0
        /\ IsPrefix(executed, stages)
        /\ (pc = "b_next" => cur = Len(executed) + 1 /\ cur <= NStages)

C2_Witness ==
    /\ run.mode = "build"
    /\ run.fkind = "garbage"
    /\ executed = <<"detect_rootfs", "unsquash">>

\* C3: in a build run, a stage invocation that exited nonzero is the last
\* invocation of the run, that stage was invoked once, and the run has
\* ended with a nonzero exit code.
C3_FailedStageIsFatal ==
    \A i \in 1..Len(codes) :
        (run.mode = "build" /\ codes[i] # 0) =>
            /\ i = Len(executed)
            /\ \A j \in 1..Len(executed) : executed[j] = executed[i] => j = i
            /\ pc = "idle"
            /\ run.status = "exited"
            /\ run.code # 0

C3_Witness ==
    /\ run.mode = "build"
    /\ Len(codes) = 3
    /\ codes[3] # 0
    /\ run.code # 0

\* C4: when a build run has ended because a stage exited nonzero, the
\* checkpoint's stage value is the one stored when that stage was started.
C4_FailedStageLeavesCheckpoint ==
    (run.mode = "build" /\ run.status = "exited" /\ run.at = "stage") =>
        StoredStage(ckpt) = ckBefore

\* C5: after a build run that began at stage 0 and ended because stage k
\* exited nonzero, the first stage the next build run invokes is stage k.
C5_ResumeAtFailedStage ==
    (/\ run.mode = "build"
     /\ prev.mode = "build"
     /\ prev.status = "exited"
     /\ prev.idx = 0
     /\ prev.failed > 0
     /\ executed # <<>>)
        => executed[1] = stages[prev.failed]

\* C6: the orchestrator writes its checkpoint for a stage only after that
\* stage exited zero, the checkpoint of stage s is on disk when stage s+1 is
\* started, and a build run that follows one killed between the checkpoint
\* of stage s and the start of stage s+1 first invokes stage s+1.
C6_ResumeAtStageBoundary ==
    /\ (pc = "b_write" =>
            Len(codes) = Len(executed) /\ codes[Len(codes)] = 0)
    /\ (pc = "s_run" /\ Len(executed) >= 2 =>
            ckpt = checkpoint_data(executed[Len(executed) - 1] \o "_complete"))
    /\ (/\ run.mode = "build"
        /\ prev.mode = "build"
        /\ prev.status = "killed"
        /\ prev.at = "b_next"
        /\ prev.done > 0
        /\ executed # <<>>)
            => executed[1] = stages[prev.done + 1]

LastCall == calls[Len(calls)]

\* C7: a stage_done whose _write_json has not reached its os.replace, be it
\* still running or killed (before the temp file is opened, with the temp
\* file empty, partly written or fully written), leaves the checkpoint file
\* as it was before the call, so get_checkpoint returns the previous stage
\* and meta.
C7_AtomicWriteSafety ==
    (calls # <<>> /\ ~LastCall.raised /\ ~LastCall.done) =>
        /\ ckpt = LastCall.before
        /\ get_checkpoint(ckpt).data.stage = get_checkpoint(LastCall.before).data.stage
        /\ get_checkpoint(ckpt).data.meta = get_checkpoint(LastCall.before).data.meta

C7_Witness ==
    /\ pc = "idle"
    /\ calls # <<>>
    /\ ~LastCall.raised /\ ~LastCall.done
    /\ tmp.kind = "partial"
    /\ ckpt.kind = "json"
    /\ ckpt.meta # EmptyMeta
    /\ LastCall.patch # EmptyMeta

\* C8: the checkpoint file is never empty or partly written: once a write
\* has begun it holds the content from before that write or the content
\* that write puts.
C8_PreviousOrNewestVersion ==
    /\ ckpt.kind \notin {"empty", "partial"}
    /\ (wr.mode # "none" => (ckpt = wr.before \/ ckpt = wr.data))

\* what the Checkpoint record can be on disk: no file, bytes that do not
\* parse, or a JSON object (with or without "stage" and "meta")
CheckpointState(f) == f.kind = "absent" \/ ~Parses(f) \/ f.top = "obj"

C10_ReadNeverFails ==
    rd.valid =>
        /\ ~rd.gc.raised
        /\ (rd.file.kind = "absent" \/ ~Parses(rd.file)) =>
                (rd.gc.data.stage = JStr("none") /\ rd.ls = JStr("none"))
        /\ (Parses(rd.file) /\ rd.file.top = "obj" /\ rd.file.stage.t # "missing") =>
                (rd.gc.data.stage = rd.file.stage /\ rd.ls = rd.file.stage)

\* the meta keys the advance under way sets itself: the keyword arguments of
\* the script's stage_done call, none for detect_rootfs's write_checkpoint
\* and for the orchestrator's checkpoint()
AdvancePatch ==
    IF pc = "b_write" THEN {}
    ELSE CASE stages[cur] = "unsquash"    -> DOMAIN UnsquashPatch
           [] stages[cur] = "repack_fw"   -> DOMAIN RepackPatch
           [] stages[cur] = "validate_fw" ->
                IF wr.data.stage = JStr("validate_failed")
                THEN {"missing", "results"} ELSE DOMAIN ValidateOkPatch
           [] OTHER                       -> {}

\* C11: every checkpoint write of a build run, by a stage script or by the
\* orchestrator after the stage, keeps each meta key the file held before it,
\* with its value unless the advance's own patch sets that key.
C11_AdvanceKeepsMeta ==
    (run.mode = "build" /\ pc \in {"s_write", "b_write"}) =>
        \A k \in DOMAIN wr.before.meta :
            /\ k \in DOMAIN wr.data.meta
            /\ (k \notin AdvancePatch => wr.data.meta[k] = wr.before.meta[k])

\* targets of the mount commands that returned 0, in the order issued
MountedTargets ==
    LET ok(c) == c.cmd = "mount" /\ c.rc = 0
        s     == SelectSeq(syscalls, ok)
    IN  [i \in 1..Len(s) |-> s[i].target]

\* targets of the umount commands, in the order issued
UnmountedTargets ==
    LET um(c) == c.cmd = "umount"
        s     == SelectSeq(syscalls, um)
    IN  [i \in 1..Len(s) |-> s[i].target]

\* run_all has returned or has been left by an exception
RunAllEnded == vpc \in {"save", "done", "raised"}

\* C12: once run_all has ended, by return or by a probe's exception, and
\* whichever of the four mounts succeeded, there are as many umount commands
\* as mount commands that returned 0, each target mounted is unmounted once
\* and no other target is unmounted.
C12_ValidationSymmetry ==
    RunAllEnded =>
        /\ Len(UnmountedTargets) = Len(MountedTargets)
        /\ did = <<>>
        /\ \A i \in 1..Len(MountTargets) :
              Cardinality({j \in 1..Len(UnmountedTargets) :
                              UnmountedTargets[j] = MountTargets[i]})
                = IF \E j \in 1..Len(MountedTargets) : MountedTargets[j] = MountTargets[i]
                  THEN 1 ELSE 0

C12_Witness ==
    /\ vpc = "raised"
    /\ val.fault = "test_elf_deps"
    /\ MountedTargets = <<"proc", "dev", "dev/pts">>
    /\ Len(UnmountedTargets) = 3

\* C13: teardown unmounts no target whose mount failed, and the umount
\* commands come in the reverse of the order of the successful mounts:
\* dev/pts, dev, sys, proc when all four succeeded.
C13_TeardownReverseOrder ==
    /\ \A j \in 1..Len(UnmountedTargets) :
          \E i \in 1..Len(syscalls) :
              /\ syscalls[i].cmd = "mount"
              /\ syscalls[i].target = UnmountedTargets[j]
              /\ syscalls[i].rc = 0
    /\ RunAllEnded =>
          /\ \A j \in 1..Len(UnmountedTargets) :
                UnmountedTargets[j] = MountedTargets[Len(MountedTargets) + 1 - j]
          /\ (MountedTargets = MountTargets =>
                UnmountedTargets = <<"dev/pts", "dev", "sys", "proc">>)

C13_Witness ==
    /\ vpc = "done"
    /\ MountedTargets = MountTargets
    /\ UnmountedTargets = <<"dev/pts", "dev", "sys", "proc">>

\* C14: a probe that raises leaves an entry for itself in the results, the
\* probes after it still run, nothing leaves run_all as an exception, and
\* the report is written.
C14_ProbeIndependence ==
    /\ vpc # "raised"
    /\ (vpc \in {"teardown", "save", "done"} => val.probe = NProbes + 1)
    /\ (val.fault # "none" =>
            (CASE val.fault = "test_diskspace" -> "disk_space_mb"
               [] val.fault = "test_elf_deps"  -> "elf_deps"
               [] OTHER                        -> "kernel_modules") \in DOMAIN results.tests)
    /\ (vpc = "done" => report.written)

\* C15: the report of a tree without /bin/sh has tests.structure.ok false,
\* "/bin/sh" in tests.structure.missing_bins, a non-empty errors list, and
\* the entries of the probes after the structure probe, the network and DNS
\* entries among them.
C15_MissingShellReport ==
    (vpc = "done" /\ "/bin/sh" \notin val.tree) =>
        LET t == report.results.tests
        IN  /\ report.written
            /\ t["structure"].status = "fail"
            /\ "/bin/sh" \in t["structure"].missing_bins
            /\ {"disk_space_mb", "python_runtime", "services_presence", "nginx_test",
                 "moonraker_config", "network_ping", "dns_resolve", "apt", "elf_deps",
                 "kernel_modules"} \subseteq DOMAIN t
            /\ report.results.errors # <<>>

\* run_qemu has returned after starting the child
RunQemuReturned == qm.launched /\ qpc \in {"q_report", "exited"}

\* C16: when run_qemu has returned from a run whose log, as decoded, holds
\* no boot-banner pattern, its status is "failed" if the log has at least
\* one byte and "failed_no_output" if it has none, so never "passed".
C16_TimeoutClassification ==
    (RunQemuReturned /\ ~Matches(Decode(bootlog.text))) =>
        rq.status = IF Len(bootlog.text) > 0 THEN "failed" ELSE "failed_no_output"

C16_Witness ==
    /\ qpc = "exited"
    /\ qm.launched
    /\ bootlog.text = "sion 5Linux ver"
    /\ rq.status = "failed"
    /\ qreport.status = "failed"

\* C17: a run that ends "failed" or "failed_no_output" returns from run_qemu
\* no later than timeout_s + 1 seconds after the child was started.
C17_BoundedResponse ==
    (RunQemuReturned /\ rq.status \in {"failed", "failed_no_output"}) =>
        qm.ended - rq.start <= (env.timeout_s + 1) * TicksPerSecond

\* C18: with QEMU_TEST_STRICT=1 the process exits nonzero unless the report
\* says "passed".
C18_StrictExitsNonzero ==
    (qpc = "exited" /\ env.strict /\ ~(qreport.exists /\ qreport.status = "passed")) =>
        qm.code # 0

\* C19: without QEMU_TEST_STRICT=1 the process exits zero, whatever the
\* flag, the emulator, the kernel, the run and the checkpoint file are.
C19_NonStrictExitsZero ==
    (qpc = "exited" /\ ~env.strict) => qm.code = 0

\* C20: with the flag off, the emulator missing or the kernel missing, the
\* child is never started, and the process ends with a report "skipped".
C20_SkipWritesReport ==
    (qpc # "idle" /\ (~env.enable \/ ~env.qemu_bin \/ ~env.kernel)) =>
        /\ ~qm.launched
        /\ child.state = "none"
        /\ (qpc = "exited" => qreport.exists /\ qreport.status = "skipped")

\* C21: whenever run_qemu has returned after starting the child, the child is
\* not left running unsignalled: terminate() was issued, which sends SIGTERM
\* unless the child had already exited and is only reaped; SIGKILL is sent
\* exactly when the child's exit was not seen within the wait after SIGTERM,
\* and it is sent after the SIGTERM; and the polling loop always ends: once
\* the child is started run_qemu returns
C21_StopDiscipline ==
    /\ [](RunQemuReturned =>
            /\ child.state \in {"exited", "terminated", "killed"}
            /\ child.state = "exited" => child.reaped /\ child.signals = <<>>
            /\ child.state # "exited" =>
                   /\ child.signals # <<>>
                   /\ child.signals[1] = "SIGTERM"
            /\ (\E i \in 1..Len(child.signals) : child.signals[i] = "SIGKILL")
                   <=> ~child.reaped
            /\ child.reaped => child.signals \in {<<>>, <<"SIGTERM">>}
            /\ ~child.reaped => child.signals = <<"SIGTERM", "SIGKILL">>)
    /\ ((qpc = "q_poll") ~> RunQemuReturned)

\* the child outlived the wait after the banner was seen and was killed
C21_Witness ==
    /\ RunQemuReturned
    /\ rq.status = "passed"
    /\ child.signals = <<"SIGTERM", "SIGKILL">>

RunEnded == pc = "idle" /\ run.status \in {"exited", "raised"}

\* C27: when the orchestrator process has ended, its exit code is 0 exactly
\* when every collaborator it started exited zero, and otherwise it is the exit
\* code of the collaborator that failed, in build mode and in fetch mode (the
\* prerequisite's own exit code is not kept: an exit taken in
\* ensure_firmware_present is left out of the first half)
C27_ExitCodeMirrorsCollaborators ==
    RunEnded =>
       LET failed == {i \in 1..Len(codes) : codes[i] # 0}
       IN  /\ failed # {} => run.code = codes[Len(codes)]
           /\ run.code = 0 => failed = {}
           /\ (failed = {} /\ run.at # "prereq") => run.code = 0

\* C30: within one build run the stages started so far are the stage list
\* from the resume index on, in list order, none twice and none left out, and
\* every stage followed by another exited zero
C30_ContiguousStages ==
    run.mode = "build" =>
       /\ IsPrefix(executed, SubSeq(stages, run.idx + 1, NStages))
       /\ Len(codes) \in {Len(executed) - 1, Len(executed)}
       /\ \A i \in 1..Len(codes) : i < Len(executed) => codes[i] = 0

\* a resumed run that has started the last three stages, one after the other
C30_Witness ==
    /\ run.mode = "build"
    /\ run.idx = 2
    /\ executed = SubSeq(stages, 3, NStages)
    /\ codes = <<0, 0>>

\* C29: the timeline only grows: what get_history returned before is a
\* prefix of what it returns later, whichever writers ran in between
\* (update_progress, the smoke test's save_checkpoint)
C29_HistoryAppendOnly == IsPrefix(hist.prev, hist.last)

\* C28: validate_fw exits nonzero exactly when a required component is
\* missing or a directory; a missing optional component is in the report with
\* status "missing"; and whenever the process has exited, on either path, the
\* report file has been written with the result of every component
C28_ValidateVerdict ==
    /\ vf.pc \in {"v_finish", "exited"} =>
           /\ vf.report.written
           /\ vf.report.data = [n \in Components |-> verify_component(vf.comps[n])]
           /\ \A i \in 1..Len(OPTIONAL) :
                  vf.comps[OPTIONAL[i]] = "missing" => vf.report.data[OPTIONAL[i]] = "missing"
    /\ vf.pc = "exited" =>
           (vf.exit # 0 <=> \E i \in 1..Len(REQUIRED) : vf.comps[REQUIRED[i]] # "file")

GenEnded == gpc = "exited"

\* C22: a nested region sniffed as none of squashfs, ext4, cpio, zstd/lz4/xz
\* makes try_extract_rootfs return failure and generate_fw exit 1, and
\* extraction is never reported as success without a branch having
\* extracted a tree
C22_NoSuccessWithoutTree ==
    /\ (GenEnded /\ gen.branch = "unrecognized") => (gen.ok = "False" /\ gen.exit = 1)
    /\ gen.ok = "True" => gen.tree

\* C23: for a compressed verdict success is reported only if a second
\* dispatch, on the decompressed stream, extracted a rootfs tree
C23_CompressedRedispatch ==
    (gen.branch = "compressed" /\ gen.ok = "True") => gen.tree

\* C24: after a successful extraction the tree holds only entries written by
\* the attempt that succeeded: nothing of an earlier run, nothing of an
\* earlier failed strategy of this run
C24_FreshTree ==
    gen.ok = "True" =>
       gen.dir \subseteq {IF gen.primary = "pass" THEN "primary" ELSE "nested"}

\* C25: whatever the external tools do, generate_fw ends with an explicit
\* exit, 0 or 1, never with an exception nobody handles
C25_NoUnhandledException == GenEnded => (~gen.raised /\ gen.exit \in {0, 1})

\* C26: the first attempt is a PASS exactly when unsquashfs exited zero, or
\* exited nonzero with both the permission warning and the files-created
\* marker in its output; a PASS returns success at once, anything else goes
\* on to the signature scan
C26_PrimaryPass ==
    gen.primary # "-" =>
       /\ gen.primary = "pass" <=>
             \/ gen.rc = 0
             \/ gen.rc # 0 /\ gen.stderr \in PermTexts /\ gen.stdout \in CreatedTexts
       /\ gen.primary = "pass" => (gen.ok = "True" /\ gen.offset = "-")
       /\ gen.primary = "fail" => (gpc = "g_scan" \/ gen.offset # "-")

\* unsquashfs exited 1 with both markers: PASS, the process exited 0
C26_Witness ==
    /\ GenEnded
    /\ gen.rc = 1 /\ gen.stderr \in PermTexts /\ gen.stdout \in CreatedTexts
    /\ gen.primary = "pass"
    /\ gen.exit = 0

\* C31: in a build run generate_fw is started at most once, exactly when the
\* image or the rootfs tree was found absent, and before any stage is started
C31_PrerequisiteOnce ==
    run.mode = "build" =>
       /\ run.gen <= 1
       /\ run.gen = 1 <=> run.have = "absent"
       /\ run.have = "present" => run.gen = 0
       /\ run.have = "-" => (executed = <<>> /\ cur = 0)

\* generate_fw was started, and stages after it
C31_Witness ==
    /\ run.mode = "build"
    /\ run.gen = 1
    /\ run.have = "absent"
    /\ Len(executed) >= 2

\* C32: when generate_fw exits nonzero, or leaves no rootfs directory, the
\* build run has exited nonzero, has started no stage, and the checkpoint
\* file is the one the run found
C32_PrerequisiteFailure ==
    (run.mode = "build" /\ run.have = "absent" /\ (run.gencode # 0 \/ ~run.rootfs)) =>
       /\ pc = "idle"
       /\ run.status = "exited"
       /\ run.code # 0
       /\ run.code = (IF run.gencode # 0 THEN run.gencode ELSE 1)
       /\ executed = <<>>
       /\ ckpt = run.ck0

\* generate_fw exited zero and left no rootfs, on a checkpoint file in place
C32_Witness ==
    /\ run.mode = "build" /\ run.have = "absent"
    /\ run.gencode = 0 /\ ~run.rootfs
    /\ run.code = 1
    /\ run.ck0.kind = "json" /\ ckpt = run.ck0

-----------------------------------------------------------------------------
\* C38: in a build run that found no checkpoint file and whose prerequisite
\* step let it go on, every stage finds in the checkpoint the input it reads
\* from it when it is started: unsquash finds artifacts.rootfs_source,
\* inject_upstream finds artifacts.rootfs_dir (without which the script exits
\* 1 whatever its tools do, so that the run cannot execute all five stages)
C38_StagesFindInputs ==
    (run.mode = "build" /\ run.ck0 = Absent /\ pc = "s_run") =>
       /\ stages[cur] = "unsquash" => HasArtifact(ckpt, "rootfs_source")
       /\ stages[cur] = "inject_upstream" => HasArtifact(ckpt, "rootfs_dir")

-----------------------------------------------------------------------------
\* what the scan's rows say, row set by row set: the offset to be used, as
\* the decimal text of the integer, "none" when no row qualifies
ScanTruth ==
    {<< <<>>, "none" >>,
     << <<BwLine("0", "uImage header")>>, "none" >>,
     << <<BwLine("0", "uImage header"), BwLine("4096", "Squashfs filesystem, rootfs")>>,
        "4096" >>,
     << <<BwLine("0x100", "rootfs blob"), BwLine("512", "CPIO ROOTFS")>>, "512" >>,
     << <<BwLine("0064", "JFFS2 rootfs"), BwLine("2048", "rootfs copy")>>, "64" >>}

\* C33: the steps of the classification run in priority order: the scan only
\* after the first attempt did not pass, the archive-member fallback only when
\* the scan gave no offset, the byte-range copy only when it gave one, and
\* the offset is the integer at the head of the first row that names rootfs
\* and starts with an integer
C33_PriorityOrder ==
    /\ gen.offset # "-" => gen.primary = "fail"
    /\ gen.carve # "-" => gen.offset # "-"
    /\ gen.carve = "cpio" => gen.offset = "none"
    /\ gen.carve = "dd" => gen.offset \notin {"-", "none"}
    /\ gen.file_type # "-" => gen.carve # "-"
    /\ gen.offset # "-" => <<gen.bw, gen.offset>> \in ScanTruth

\* the scan printed two rows that qualify, the first with a zero-padded
\* number, and the copy was made
C33_Witness ==
    /\ gen.bw = <<BwLine("0064", "JFFS2 rootfs"), BwLine("2048", "rootfs copy")>>
    /\ gen.offset = "64"
    /\ gen.carve = "dd"
    /\ gpc = "exited"

\* C34: once a branch is taken for the sniffed type, only that branch's tools
\* are started, however they end, and a type that several tests of the chain
\* accept is given to the first of them: squashfs, then ext4, then cpio, then
\* compressed
C34_OneBranch ==
    /\ gen.branch = "squashfs" => gen.tools \subseteq {"unsquashfs"}
    /\ gen.branch = "ext4" => gen.tools \subseteq {"guestmount"}
    /\ gen.branch = "cpio" => gen.tools \subseteq {"cpio"}
    /\ gen.branch = "compressed" => gen.tools \subseteq {"zstd", "lz4", "xz"}
    /\ gen.branch \in {"-", "unrecognized"} => gen.tools = {}
    /\ gen.file_type = "Squashfs filesystem, xz compressed" => gen.branch = "squashfs"
    /\ gen.file_type = "ext4 image (cpio, lz4)" => gen.branch = "ext4"
    /\ gen.file_type = "cpio archive (XZ compressed)" => gen.branch = "cpio"
    /\ gen.file_type = "XZ compressed data" => gen.branch = "compressed"

\* a type that three tests accept went to the ext4 branch, whose tool failed
C34_Witness ==
    /\ gen.file_type = "ext4 image (cpio, lz4)"
    /\ gen.tools = {"guestmount"}
    /\ gen.out = "nonzero"
    /\ gpc = "exited"

\* C37: try_extract_rootfs returns True from the nested squashfs, ext4 or
\* cpio branch only if the branch's tool exited zero
C37_ToolFailureIsFailure ==
    (gen.ok # "-" /\ gen.branch \in {"squashfs", "ext4", "cpio"} /\ gen.out = "nonzero")
       => gen.ok = "False"

-----------------------------------------------------------------------------
\* C36: when test_network has run with a failing ping or a failing lookup,
\* the warnings hold an entry for it (one that no earlier probe appends) and
\* the errors are those of the earlier probes
C36_NetworkFailureWarned ==
    (/\ vpc = "probe" /\ val.probe = 9
     /\ \/ results.tests["network_ping"].status = "fail"
        \/ results.tests["dns_resolve"].status = "fail")
    => /\ \E i \in 1..Len(results.warnings) :
             results.warnings[i] \notin {"Basic structure incomplete",
                                         "Low free space (<200 MB)",
                                         "Klipper binary/module not detected"}
       /\ \A i \in 1..Len(results.errors) :
             results.errors[i] \in {"Python3 runtime not working",
                                    "nginx config test failed",
                                    "moonraker.conf failed YAML parse"}

-----------------------------------------------------------------------------
\* C39: when at some round of the polling loop before the timeout the log
\* file as a whole held
\* one of the boot-banner patterns, however its bytes were spread over the
\* rounds, run_qemu returns "passed"
C39_SplitBannerDetected ==
    (RunQemuReturned /\ rq.whole) => rq.status = "passed"

-----------------------------------------------------------------------------
\* C40: from no checkpoint file on, whatever the program's writers did to the
\* file and in whatever order, a build run skips only stages that have
\* exited zero before: every stage below the resume index has
C40_NoUnfinishedStageSkipped ==
    run.mode = "build" => \A i \in 1..run.idx : stages[i] \in prev.ever

\* under SpecWriters a build run starts no stage that NextWriters leaves out
WritersStagesOnly ==
    (run.mode = "build" /\ pc = "s_run") => stages[cur] \in WritersStages

-----------------------------------------------------------------------------
\* sq is the first min(SampleLimit, |D|) files of D in sorted order
IsSample(sq, D) ==
    /\ Len(sq) = (IF Cardinality(D) < SampleLimit THEN Cardinality(D) ELSE SampleLimit)
    /\ \A i \in 1..Len(sq) : sq[i] \in D
    /\ \A i \in 1..(Len(sq) - 1) : sq[i][2] < sq[i + 1][2]
    /\ \A x \in D \ {sq[i] : i \in 1..Len(sq)} : x[2] > sq[Len(sq)][2]

\* C35: compare_roots is set difference, section by section over the six
\* sections: with A the files of the original tree under the section and B
\* those of the rebuilt tree, added_count = |B \ A|, removed_count = |A \ B|,
\* each sample is the first min(200, count) files of its difference in
\* sorted order, and with the trees swapped added and removed change places
C35_SetDifference ==
    /\ inv.ran =>
          /\ DOMAIN inv.diff = {"/bin", "/sbin", "/usr/bin", "/usr/sbin", "/etc", "/lib/modules"}
          /\ \A sec \in DOMAIN inv.diff :
                LET A == {p \in inv.orig : p[1] = sec}
                    B == {p \in inv.new : p[1] = sec}
                    d == inv.diff[sec]
                IN  /\ d.added_count = Cardinality(B \ A)
                    /\ d.removed_count = Cardinality(A \ B)
                    /\ IsSample(d.added_sample, B \ A)
                    /\ IsSample(d.removed_sample, A \ B)
    /\ (inv.ran /\ inv.ranBack) =>
          \A sec \in DOMAIN inv.diff :
             /\ inv.back[sec].added_count = inv.diff[sec].removed_count
             /\ inv.back[sec].removed_count = inv.diff[sec].added_count
             /\ inv.back[sec].added_sample = inv.diff[sec].removed_sample
             /\ inv.back[sec].removed_sample = inv.diff[sec].added_sample

\* a section gained more files than a sample holds and lost some, and both
\* calls were made
C35_Witness ==
    /\ inv.ran /\ inv.ranBack
    /\ inv.diff["/usr/bin"].added_count > SampleLimit
    /\ Len(inv.diff["/usr/bin"].added_sample) = SampleLimit
    /\ inv.diff["/usr/bin"].removed_count = 2
    /\ inv.diff["/etc"].removed_count = 2

=============================================================================
